---- MODULE Spec2Model ----
(***************************************************************************)
(* prettier-max: the deprecated-symbol usage analyzer                      *)
(* (checkDeprecatedUsage, called from runTypeScriptCheck).                 *)
(*                                                                         *)
(* The compiled program (TypeScript's Program and TypeChecker) is the      *)
(* input.  It is written down as a sequence of items in source order: the  *)
(* nodes the traversal visits, the comment lines in front of them, the     *)
(* end of a function-like node's subtree and the start of the next source  *)
(* file.  What the checker answers for a node (its symbol, the symbol's    *)
(* JSDoc tags, modifier flags and alias target) is part of the input.      *)
(***************************************************************************)
EXTENDS Integers, Sequences, FiniteSets, TLC

VARIABLES
  options,             \* the plugin's options and what its steps come to
  build,               \* where buildStart stands and what it has seen
  banner,              \* the .prettierbanner file, the target files and applyBanner's run
  config,              \* the root directory and generatePrettierConfigFiles' run
  program,             \* the items of the compiled program, in source order
  order,               \* the source files in the order of program.getSourceFiles()
  tsDiagnostics,       \* the lines of the formatted compile diagnostics
  setup,               \* what loading TypeScript and the tsconfig comes to
  detectDeprecated,    \* runTypeScriptCheck's parameter
  errors,              \* runTypeScriptCheck: const errors: PrettierError[]
  pc,                  \* where runTypeScriptCheck / checkDeprecatedUsage stands
  cursor,              \* index of the next item of `program` to look at
  checkedLocations,    \* Set<string>, "filename:line:displayName"
  suppressedLines,     \* Map<string, Set<number>>, in insertion order
  usedSuppressions,    \* Set<string>, "filename:line"
  deprecationWarnings, \* PrettierError[]
  result,              \* the FormatResult runTypeScriptCheck returned
  runs,                \* number of runTypeScriptCheck calls started so far
  firstResult          \* the FormatResult of the first call, once a second started

\* The plugin around runTypeScriptCheck.
plugin == <<options, build>>

\* What runTypeScriptCheck is given.
given == <<program, order, tsDiagnostics, setup, detectDeprecated>>

vars == <<plugin, banner, config, given, errors, pc, cursor, checkedLocations, suppressedLines,
          usedSuppressions, deprecationWarnings, result, runs, firstResult>>

-----------------------------------------------------------------------------
(* Bounds of the model. *)

\* Longest program, in items.
MaxItems == 3

\* How many times runTypeScriptCheck is called on the same program.
MaxRuns == 2

\* Most tsconfig files buildStart validates.
MaxTargets == 2

\* Most lines of a .prettierbanner file.
MaxBannerLines == 3

\* Most files applyBanner finds under the root.
MaxFiles == 1

\* How many times applyBanner runs over the same files.
MaxApplies == 2

\* Most lines of formatted compile diagnostics.
MaxDiagnostics == 2

-----------------------------------------------------------------------------
(* The checker's answers about symbols. *)

\* checker.getSymbolAtLocation returned undefined.
NoSymbol == 0

\* checker.getSymbolAtLocation / getAliasedSymbol threw.
Throws == -1

DeprecatedTag(parts) == [name |-> "deprecated", hasText |-> TRUE, text |-> parts]

BareDeprecatedTag == [name |-> "deprecated", hasText |-> FALSE, text |-> <<>>]

Sym(name, tags, tagsThrow, valueDeclaration, deprecatedFlag, aliased) ==
  [name |-> name, jsDocTags |-> tags, tagsThrow |-> tagsThrow,
   valueDeclaration |-> valueDeclaration, deprecatedFlag |-> deprecatedFlag,
   aliased |-> aliased]

\* The symbols of the compiled program.  name: symbol.getName();
\* jsDocTags: symbol.getJsDocTags(checker), text absent for a tag without
\* comment; tagsThrow: getJsDocTags throws; valueDeclaration: the symbol has
\* one; deprecatedFlag: getCombinedModifierFlags(valueDeclaration) has
\* ModifierFlags.Deprecated; aliased: checker.getAliasedSymbol(symbol).
SymbolTable ==
  <<
    \* 1: function current() {}
    Sym("current", <<>>, FALSE, TRUE, FALSE, NoSymbol),
    \* 2: /** @deprecated Use newFn */ function oldFn() {}
    Sym("oldFn", <<DeprecatedTag(<<"Use ", "newFn">>)>>, FALSE, TRUE, TRUE, NoSymbol),
    \* 3: /** @deprecated */ function bareFn() {}
    Sym("bareFn", <<BareDeprecatedTag>>, FALSE, TRUE, TRUE, NoSymbol),
    \* 4: /** @deprecated */ interface OldType {}   (no value declaration)
    Sym("OldType", <<BareDeprecatedTag>>, FALSE, FALSE, FALSE, NoSymbol),
    \* 5: another symbol named `current`, deprecated with a reason
    Sym("current", <<DeprecatedTag(<<"Twin">>)>>, FALSE, TRUE, TRUE, NoSymbol),
    \* 6: a deprecated tag whose text has no parts
    Sym("emptyFn", <<DeprecatedTag(<<>>)>>, FALSE, TRUE, TRUE, NoSymbol),
    \* 7: only the modifier flag, no tag
    Sym("legacyFn", <<>>, FALSE, TRUE, TRUE, NoSymbol),
    \* 8: /** @Deprecated no */ : another tag name
    Sym("Cased", <<[name |-> "Deprecated", hasText |-> TRUE, text |-> <<"no">>]>>,
        FALSE, TRUE, FALSE, NoSymbol),
    \* 9: getJsDocTags throws for this symbol
    Sym("broken", <<>>, TRUE, TRUE, FALSE, NoSymbol),
    \* 10: import { oldFn as localX }: alias of 2
    Sym("localX", <<>>, FALSE, FALSE, FALSE, 2),
    \* 11: import { current as localOk }: alias of 1
    Sym("localOk", <<>>, FALSE, FALSE, FALSE, 1),
    \* 12: an alias the checker cannot resolve (getAliasedSymbol gives undefined)
    Sym("localLost", <<>>, FALSE, FALSE, FALSE, NoSymbol),
    \* 13: an alias whose resolution throws
    Sym("localBad", <<>>, FALSE, FALSE, FALSE, Throws),
    \* 14: import { OldType as localT }: alias of 4
    Sym("localT", <<>>, FALSE, FALSE, FALSE, 4),
    \* 15: a member deprecated with a reason (enum member, property, accessor)
    Sym("oldMember", <<DeprecatedTag(<<"Use newMember">>)>>, FALSE, TRUE, TRUE, NoSymbol),
    \* 16: /** @deprecated Use NewAlias */ type OldAlias = ...  (no value declaration)
    Sym("OldAlias", <<DeprecatedTag(<<"Use NewAlias">>)>>, FALSE, FALSE, FALSE, NoSymbol),
    \* 17: type NewAlias = ...
    Sym("NewAlias", <<>>, FALSE, FALSE, FALSE, NoSymbol),
    \* 18: /** @deprecated Use 'replacement' prop instead */ legacy?: string
    Sym("legacy", <<DeprecatedTag(<<"Use 'replacement' prop instead">>)>>,
        FALSE, TRUE, TRUE, NoSymbol),
    \* 19: the symbol of the attribute `legacy="old"` itself
    Sym("legacy", <<>>, FALSE, TRUE, FALSE, NoSymbol),
    \* 20: value: number
    Sym("value", <<>>, FALSE, TRUE, FALSE, NoSymbol),
    \* 21: /** @deprecated */ bare?: string
    Sym("bare", <<BareDeprecatedTag>>, FALSE, TRUE, TRUE, NoSymbol)
  >>

Symbols == DOMAIN SymbolTable

\* What the checker answers about a JSX attribute: direct is
\* getSymbolAtLocation(attribute.name); declared, whether that symbol has a
\* declaration other than a JSX attribute; byAttributesType and byPropsType
\* are getPropertyOfType on the type of element.attributes and on the
\* component's props parameter.  prop is the component prop the attribute
\* stands for (NoSymbol when the component declares none).
Attr(direct, declared, byAttributesType, byPropsType, prop) ==
  [direct |-> direct, declared |-> declared, byAttributesType |-> byAttributesType,
   byPropsType |-> byPropsType, prop |-> prop]

JsxAttributes ==
  <<
    \* 1: the prop's own symbol is found at the attribute name
    Attr(18, TRUE, NoSymbol, NoSymbol, 18),
    \* 2: the attribute's symbol is found; the attributes type has the prop
    Attr(19, FALSE, 18, NoSymbol, 18),
    \* 3: nothing at the name, the attributes type lookup throws, the props
    \*    parameter has the prop
    Attr(NoSymbol, FALSE, Throws, 18, 18),
    \* 4: a component without declared props (any): no lookup finds a prop
    Attr(19, FALSE, NoSymbol, Throws, NoSymbol),
    \* 5: a prop that is not deprecated
    Attr(20, TRUE, NoSymbol, NoSymbol, 20),
    \* 6: a prop deprecated without text, found through the props parameter
    Attr(NoSymbol, FALSE, NoSymbol, 21, 21)
  >>

-----------------------------------------------------------------------------
(* Programs. *)

NodeKinds == {"Identifier", "CallExpression", "FunctionDeclaration",
              "DeclarationName", "ImportSpecifier", "ImportClause",
              "ExportSpecifier", "ExportDeclaration", "TypeAliasDeclaration",
              "TypeReference", "JsxElement"}

\* The nodes visit may return on without descending; their subtree runs to
\* the matching Close.
ScopeKinds == {"FunctionDeclaration", "ExportDeclaration", "TypeAliasDeclaration"}

\* An item: k is its kind; sym what checker.getSymbolAtLocation answers for
\* the node (its name, for a declaration or specifier; its callee, for a
\* call); same: the node starts on the line of the node before it; doc: a
\* comment holding `@deprecated` is adjacent to the node (an export
\* specifier) or is a leading JSDoc comment of it (an export or type-alias
\* declaration); text: the source
\* text of a comment, from comment.pos to comment.end.
Item(k, sym, same, doc) ==
  [k |-> k, sym |-> sym, same |-> same, doc |-> doc, text |-> "", parent |-> "",
   attr |-> 0]

\* <Tag attribute=... />: sym is the symbol at the tag name, attr the entry
\* of JsxAttributes for its attribute (0: no attribute).
JsxElement(sym, attr, same) ==
  [Item("JsxElement", sym, same, FALSE) EXCEPT !.attr = attr]

\* The parents whose name identifier visit returns on.
SkippedDeclarations ==
  {"ClassDeclaration", "InterfaceDeclaration", "FunctionDeclaration",
   "TypeAliasDeclaration", "EnumDeclaration", "PropertySignature",
   "PropertyDeclaration", "MethodSignature", "MethodDeclaration",
   "VariableDeclaration"}

\* Declarations whose name identifier is in none of visit's tests.
OtherDeclarations ==
  {"EnumMember", "PropertyAssignment", "GetAccessor", "SetAccessor", "Parameter"}

\* The identifier that is the name of a declaration of the given kind.
DeclarationName(parent, sym) ==
  [Item("DeclarationName", sym, FALSE, FALSE) EXCEPT !.parent = parent]

\* A comment on lines of its own, a leading comment of the next node.
Comment(text) == [Item("Comment", NoSymbol, FALSE, FALSE) EXCEPT !.text = text]

DirectiveText == "@prettier-max-ignore-deprecated"

\* `// @prettier-max-ignore-deprecated`
Directive == Comment("// " \o DirectiveText)

\* A line without directive (blank, or another comment).
Blank == Item("Blank", NoSymbol, FALSE, FALSE)

\* The next source file of program.getSourceFiles() starts here.
NewFile == Item("NewFile", NoSymbol, FALSE, FALSE)

\* The next source file starts here and is a declaration file or lies under
\* node_modules.
NewDeclFile == Item("NewDeclFile", NoSymbol, FALSE, FALSE)

\* The subtree of the innermost open function-like node ends here.
Close == Item("Close", NoSymbol, FALSE, FALSE)

IsNode(it) == it.k \in NodeKinds

IsFileStart(it) == it.k \in {"NewFile", "NewDeclFile"}

IsBlockComment(it) ==
  it.k = "Comment" /\ Len(it.text) >= 2 /\ SubSeq(it.text, 1, 2) = "/*"

\* The number of line breaks in the text from position i on.
RECURSIVE LineBreaks(_, _)
LineBreaks(text, i) ==
  IF i > Len(text) THEN 0
  ELSE (IF SubSeq(text, i, i) = "\n" THEN 1 ELSE 0) + LineBreaks(text, i + 1)

FileNames == <<"a.ts", "b.ts", "c.ts", "d.ts", "e.ts", "f.ts">>

\* The file an item belongs to: one more than the NewFile items up to it.
RECURSIVE FileOf(_, _)
FileOf(p, i) ==
  IF i = 0 THEN 1
  ELSE FileOf(p, i - 1) + (IF i <= Len(p) /\ IsFileStart(p[i]) THEN 1 ELSE 0)

\* Number of function-like nodes open after item i (within its file).
RECURSIVE OpenScopes(_, _)
OpenScopes(p, i) ==
  IF i = 0 THEN 0
  ELSE CASE IsFileStart(p[i]) -> 0
         [] p[i].k \in ScopeKinds -> OpenScopes(p, i - 1) + 1
         [] p[i].k = "Close" -> OpenScopes(p, i - 1) - 1
         [] OTHER -> OpenScopes(p, i - 1)

WellFormed(p) ==
  \A i \in 1..Len(p) :
    /\ p[i].k = "Close" => OpenScopes(p, i - 1) > 0
    \* code follows a node, or the end of a block comment, on its line
    /\ p[i].same => /\ i > 1
                    /\ IsNode(p[i])
                    /\ IsNode(p[i - 1]) \/ IsBlockComment(p[i - 1])
    /\ IsFileStart(p[i]) => FileOf(p, i) <= Len(FileNames)

ProgramsOver(items) ==
  {p \in UNION {[1..n -> items] : n \in 0..MaxItems} : WellFormed(p)}

\* sourceFile.getLineAndCharacterOfPosition(node.getStart()).line, 0-based:
\* every item starts a new line except a Close (no line of its own) and a
\* node marked `same`; a comment ends as many lines further as its text has
\* line breaks.
RECURSIVE Line0(_, _)
Line0(p, i) ==
  IF i = 1 \/ IsFileStart(p[i - 1]) THEN
    IF IsFileStart(p[i]) \/ p[i].k = "Close" THEN -1 ELSE 0
  ELSE IF IsFileStart(p[i]) THEN -1
  ELSE LET endOfPrevious == Line0(p, i - 1) + LineBreaks(p[i - 1].text, 1)
       IN IF p[i].same \/ p[i].k = "Close" THEN endOfPrevious
          ELSE endOfPrevious + 1

\* ...getLineAndCharacterOfPosition(node.getStart()).character, 0-based:
\* a node takes three characters (a JSX element: `<`, tag name, attribute
\* name).
RECURSIVE Char0(_, _)
Char0(p, i) == IF p[i].same THEN Char0(p, i - 1) + 3 ELSE 0

\* sourceFile.fileName of the file item i lies in.
FileNameOf(p, i) == FileNames[FileOf(p, i)]

\* The source files of the program as they are written: the first, the
\* second, ...
SourceOrder(p) == [f \in 1..FileOf(p, Len(p)) |-> f]

\* Index of the first item of file f.
FileStart(p, f) ==
  IF f = 1 THEN 1
  ELSE 1 + CHOOSE i \in DOMAIN p : IsFileStart(p[i]) /\ FileOf(p, i) = f

\* Index of the first item of the source file that follows the file ending
\* before index c, or 0 after the last one.
NextFile(p, files, c) ==
  LET k == CHOOSE k \in DOMAIN files : files[k] = FileOf(p, c - 1)
  IN IF k < Len(files) THEN FileStart(p, files[k + 1]) ELSE 0

\* Index of the last item of the file that starts at (or holds) index c.
RECURSIVE FileEnd(_, _)
FileEnd(p, c) ==
  IF c > Len(p) \/ IsFileStart(p[c]) THEN c - 1 ELSE FileEnd(p, c + 1)

\* Index of the first node at or after c in the file, or 0.
RECURSIVE NextNode(_, _)
NextNode(p, c) ==
  IF c > Len(p) \/ IsFileStart(p[c]) THEN 0
  ELSE IF IsNode(p[c]) THEN c
  ELSE NextNode(p, c + 1)

\* Index of the last item of the subtree of the function-like node n: the
\* item before the Close that matches it, or the end of the file.
RECURSIVE SubtreeScan(_, _, _)
SubtreeScan(p, j, depth) ==
  IF j > Len(p) \/ IsFileStart(p[j]) THEN j - 1
  ELSE IF p[j].k = "Close" THEN
    IF depth = 0 THEN j - 1 ELSE SubtreeScan(p, j + 1, depth - 1)
  ELSE IF p[j].k \in ScopeKinds THEN SubtreeScan(p, j + 1, depth + 1)
  ELSE SubtreeScan(p, j + 1, depth)

SubtreeEnd(p, n) == SubtreeScan(p, n + 1, 0)

-----------------------------------------------------------------------------
(* checkDeprecatedUsage: the helpers. *)

\* A string | undefined.
Undefined == [defined |-> FALSE, text |-> ""]

Defined(text) == [defined |-> TRUE, text |-> text]

\* deprecatedTag.text.map((part) => part.text).join('')
RECURSIVE Join(_)
Join(parts) == IF parts = <<>> THEN "" ELSE Head(parts) \o Join(Tail(parts))

\* jsdocTags.find((tag) => tag.name === 'deprecated'): its index, or 0.
FindDeprecatedTag(tags) ==
  LET hits == {j \in DOMAIN tags : tags[j].name = "deprecated"}
  IN IF hits = {} THEN 0 ELSE CHOOSE j \in hits : \A h \in hits : j <= h

GetDeprecationMessage(s) ==
  IF SymbolTable[s].tagsThrow THEN Undefined
  ELSE LET tags == SymbolTable[s].jsDocTags
           j == FindDeprecatedTag(tags)
       IN IF j # 0 /\ tags[j].hasText THEN Defined(Join(tags[j].text))
          ELSE Undefined

\* The key without its file.
LocationKeyNoFile(fileName, line0, displayName) == ToString(line0 + 1) \o ":" \o displayName

\* The key without its line.
LocationKeyNoLine(fileName, line0, displayName) == fileName \o ":" \o displayName

\* `${sourceFile.fileName}:${line + 1}:${displayName}`
LocationKey(fileName, line0, displayName) ==
  fileName \o ":" \o ToString(line0 + 1) \o ":" \o displayName

\* `${sourceFile.fileName}:${actualLine}`
SuppressionKey(fileName, actualLine) == fileName \o ":" \o ToString(actualLine)

\* suppressedLines.get(fileName)?.has(actualLine) || false
IsSuppressed(sl, fileName, actualLine) ==
  \E j \in DOMAIN sl : sl[j] = [file |-> fileName, line |-> actualLine]

\* The message with the colon and the suffix whatever the suffix is.
Pmax001MessageAlwaysColon(displayName, messageSuffix) ==
  "PMAX001: '" \o displayName \o "' is deprecated: " \o messageSuffix

Pmax001Message(displayName, messageSuffix) ==
  "PMAX001: '" \o displayName \o "' is deprecated"
    \o (IF messageSuffix # "" THEN ": " \o messageSuffix ELSE "")

Pmax002Message ==
  "PMAX002: Unnecessary @prettier-max-ignore-deprecated directive - no deprecated usage found on the next line"

\* A suppressed usage that is not recorded in usedSuppressions.
MaybeAddWarningUnmarked(st, sl, fileName, line0, char0, displayName, messageSuffix) ==
  LET actualLine == line0 + 1
      message == Pmax001Message(displayName, messageSuffix)
      alreadyAdded ==
        \E j \in DOMAIN st.warnings :
          /\ st.warnings[j].file = fileName
          /\ st.warnings[j].line = actualLine
          /\ st.warnings[j].message = message
  IN IF IsSuppressed(sl, fileName, actualLine) \/ alreadyAdded THEN st
     ELSE [st EXCEPT !.warnings =
             Append(@, [file |-> fileName, line |-> actualLine,
                        column |-> char0 + 1, message |-> message])]

\* The traversal's accumulators: st.checked is checkedLocations, st.used is
\* usedSuppressions, st.warnings is deprecationWarnings; sl is suppressedLines.
\* An absent messageSuffix is "".
MaybeAddWarning(st, sl, fileName, line0, char0, displayName, messageSuffix) ==
  LET actualLine == line0 + 1
      message == Pmax001Message(displayName, messageSuffix)
      alreadyAdded ==
        \E j \in DOMAIN st.warnings :
          /\ st.warnings[j].file = fileName
          /\ st.warnings[j].line = actualLine
          /\ st.warnings[j].message = message
  IN IF IsSuppressed(sl, fileName, actualLine)
       THEN [st EXCEPT !.used = @ \cup {SuppressionKey(fileName, actualLine)}]
     ELSE IF alreadyAdded THEN st
     ELSE [st EXCEPT !.warnings =
             Append(@, [file |-> fileName, line |-> actualLine,
                        column |-> char0 + 1, message |-> message])]

\* The tag check and the flag check each add their own warning, and no
\* location is remembered.
HandleSymbolUsageBothChecks(st, sl, s, fileName, line0, char0) ==
  IF s = NoSymbol THEN st
  ELSE
    LET displayName == SymbolTable[s].name
        deprecationMessage == GetDeprecationMessage(s)
        st2 == IF deprecationMessage.defined
                 THEN MaybeAddWarning(st, sl, fileName, line0, char0,
                                      displayName, deprecationMessage.text)
                 ELSE st
    IN IF SymbolTable[s].valueDeclaration /\ SymbolTable[s].deprecatedFlag
         THEN MaybeAddWarning(st2, sl, fileName, line0, char0, displayName, "")
         ELSE st2

HandleSymbolUsage(st, sl, s, fileName, line0, char0) ==
  IF s = NoSymbol THEN st
  ELSE
    LET displayName == SymbolTable[s].name
        locationKey == LocationKey(fileName, line0, displayName)
        st1 == [st EXCEPT !.checked = @ \cup {locationKey}]
        deprecationMessage == GetDeprecationMessage(s)
        hasJsDocMessage == deprecationMessage.defined
        st2 == IF hasJsDocMessage
                 THEN MaybeAddWarning(st1, sl, fileName, line0, char0,
                                      displayName, deprecationMessage.text)
                 ELSE st1
    IN IF locationKey \in st.checked THEN st
       ELSE IF /\ SymbolTable[s].valueDeclaration
               /\ SymbolTable[s].deprecatedFlag
               /\ ~hasJsDocMessage
         THEN MaybeAddWarning(st2, sl, fileName, line0, char0, displayName, "")
       ELSE st2

\* \s of the pattern: blank, tab, line break.
IsSpace(c) == c \in {" ", "\t", "\n", "\r"}

\* The first position from i on that holds no white space.
RECURSIVE SkipSpace(_, _)
SkipSpace(text, i) ==
  IF i <= Len(text) /\ IsSpace(SubSeq(text, i, i)) THEN SkipSpace(text, i + 1) ELSE i

StartsWith(text, i, word) ==
  i + Len(word) - 1 <= Len(text) /\ SubSeq(text, i, i + Len(word) - 1) = word

\* ^ under the m flag: the start of the text or of one of its lines.
IsLineStart(text, i) == i = 1 \/ SubSeq(text, i - 1, i - 1) = "\n"

\* The pattern matches wherever the text holds the directive.
CommentMentions(text) ==
  \E i \in 1..Len(text) : StartsWith(text, i, DirectiveText)

\* commentText.match(/^\/\/\s*@prettier-max-ignore-deprecated(?::?\s*(.*))?$/m):
\* at a line start `//`, white space, the directive; the optional group takes
\* the rest of the line, whatever it is, up to the $.
CommentMatches(text) ==
  \E i \in 1..Len(text) :
    /\ IsLineStart(text, i)
    /\ StartsWith(text, i, "//")
    /\ StartsWith(text, SkipSpace(text, i + 2), DirectiveText)

\* The directive taken to protect its own line.
AddSuppressedLineOwn(sl, fileName, commentLine) ==
  LET nextLine == commentLine + 1
  IN IF IsSuppressed(sl, fileName, nextLine) THEN sl
     ELSE Append(sl, [file |-> fileName, line |-> nextLine])

\* One directive comment found: add its next line to suppressedLines.
AddSuppressedLine(sl, fileName, commentLine) ==
  LET nextLine == commentLine + 2
  IN IF IsSuppressed(sl, fileName, nextLine) THEN sl
     ELSE Append(sl, [file |-> fileName, line |-> nextLine])

\* A scan that stops at the first node of the file: only the comments above
\* it are registered before the traversal starts.
RECURSIVE ScanCommentsLeading(_, _, _)
ScanCommentsLeading(p, c, sl) ==
  IF c > Len(p) \/ IsFileStart(p[c]) \/ p[c].k # "Comment" THEN sl
  ELSE IF CommentMatches(p[c].text)
    THEN ScanCommentsLeading(p, c + 1, AddSuppressedLine(sl, FileNameOf(p, c), Line0(p, c)))
  ELSE ScanCommentsLeading(p, c + 1, sl)

\* processNode over the whole file: every leading comment that matches the
\* directive pattern, in source order, from item c to the end of the file.
RECURSIVE ScanComments(_, _, _)
ScanComments(p, c, sl) ==
  IF c > Len(p) \/ IsFileStart(p[c]) THEN sl
  ELSE IF p[c].k = "Comment" /\ CommentMatches(p[c].text)
    THEN ScanComments(p, c + 1, AddSuppressedLine(sl, FileNameOf(p, c), Line0(p, c)))
  ELSE ScanComments(p, c + 1, sl)

\* The symbol found at the attribute name alone.
GetJsxAttributeSymbolDirect(a) == JsxAttributes[a].direct

\* getJsxAttributeSymbol(element, attribute); a lookup inside a try block
\* that throws counts as not found.
GetJsxAttributeSymbol(a) ==
  LET at == JsxAttributes[a]
      found(x) == x # NoSymbol /\ x # Throws
  IN IF at.direct # NoSymbol /\ at.declared THEN at.direct
     ELSE IF found(at.byAttributesType) THEN at.byAttributesType
     ELSE IF found(at.byPropsType) THEN at.byPropsType
     ELSE at.direct

\* What visit(node) does with node n before it descends: st, the accumulators
\* after it; descend, whether ts.forEachChild(node, visit) is reached; threw,
\* whether a checker call threw.
Outcome(st, descend, threw) == [st |-> st, descend |-> descend, threw |-> threw]

VisitNode(p, n, st, sl) ==
  LET node == p[n]
      fileName == FileNameOf(p, n)
      line0 == Line0(p, n)
      char0 == Char0(p, n)
      usage(s, acc) == HandleSymbolUsage(acc, sl, s, fileName, line0, char0)
  IN
  CASE node.k = "DeclarationName" /\ node.parent \in SkippedDeclarations ->
         Outcome(st, FALSE, FALSE)
    [] node.k = "ExportSpecifier" /\ node.doc -> Outcome(st, FALSE, FALSE)
    [] node.sym = Throws -> Outcome(st, FALSE, TRUE)
    [] node.k = "FunctionDeclaration" ->
         IF node.sym # NoSymbol /\ GetDeprecationMessage(node.sym).defined
           THEN Outcome(st, FALSE, FALSE)
           ELSE Outcome(st, TRUE, FALSE)
    [] node.k = "ExportDeclaration" ->
         \* hasDeprecatedLeadingJsDoc(node)
         Outcome(st, ~node.doc, FALSE)
    [] node.k = "TypeAliasDeclaration" ->
         IF node.sym # NoSymbol /\ GetDeprecationMessage(node.sym).defined
           THEN Outcome(st, FALSE, FALSE)
           ELSE Outcome(st, ~node.doc, FALSE)
    [] node.k = "TypeReference" ->
         \* the reference, then its typeName identifier as a child
         Outcome(usage(node.sym, usage(node.sym, st)), TRUE, FALSE)
    [] node.k = "JsxElement" ->
         \* the tag name, then the attribute name
         LET tagged == HandleSymbolUsage(st, sl, node.sym, fileName, line0, char0 + 1)
         IN IF node.attr = 0 THEN Outcome(tagged, TRUE, FALSE)
            ELSE Outcome(HandleSymbolUsage(tagged, sl, GetJsxAttributeSymbol(node.attr),
                                           fileName, line0, char0 + 2),
                         TRUE, FALSE)
    [] node.k \in {"Identifier", "DeclarationName"} ->
         Outcome(usage(node.sym, st), TRUE, FALSE)
    [] node.k = "CallExpression" ->
         \* the call, then its callee identifier as the first child
         Outcome(usage(node.sym, usage(node.sym, st)), TRUE, FALSE)
    [] node.k \in {"ImportSpecifier", "ImportClause", "ExportSpecifier"} ->
         IF node.sym = NoSymbol THEN Outcome(st, TRUE, FALSE)
         ELSE
           LET aliasedSymbol == SymbolTable[node.sym].aliased
               symbolToCheck ==
                 IF aliasedSymbol # NoSymbol THEN aliasedSymbol ELSE node.sym
           IN IF aliasedSymbol = Throws THEN Outcome(st, FALSE, TRUE)
              \* the specifier, then its name identifier as a child
              ELSE Outcome(usage(node.sym, usage(symbolToCheck, st)), TRUE, FALSE)

-----------------------------------------------------------------------------
(* runTypeScriptCheck and checkDeprecatedUsage: the steps. *)

\* No FormatResult yet.
NoResult == [success |-> FALSE, errors |-> <<>>]

\* A collection that survives from the previous run.
StaleSet(previous) == previous

\* new Set<string>() / new Map() / [] inside checkDeprecatedUsage: `previous`
\* is what the last call left behind.
FreshSet(previous) == {}

FreshList(previous) == <<>>

\* The error the catch of runTypeScriptCheck adds.
FailedError ==
  [file |-> "cwd", line |-> 0, column |-> 0,
   message |-> "Failed to run TypeScript check: error"]

\* One line of ts.formatDiagnostic / formatDiagnosticsWithColorAndContext
\* output: "located" carries file, line, column and an error code,
\* "global" is an error without a file position, "context" is a line of the
\* quoted source or a blank line.
DiagnosticLine(kind, code, text) ==
  [kind |-> kind, file |-> "a.ts", line |-> 1, column |-> 5, code |-> code, text |-> text]

LocatedLine == DiagnosticLine("located", "TS2322", "Type mismatch")

GlobalLine == DiagnosticLine("global", "TS18003", "No inputs were found")

ContextLine == DiagnosticLine("context", "", "")

DiagnosticLines == {LocatedLine, GlobalLine, ContextLine}

\* The error a line matching the located pattern is parsed into.
ParsedError(l) ==
  [file |-> l.file, line |-> l.line, column |-> l.column,
   message |-> l.code \o ": " \o l.text]

\* An error without line and column (both absent, written 0).
PlainError(file, message) ==
  [file |-> file, line |-> 0, column |-> 0, message |-> message]

\* The loop over the formatted pre-emit diagnostics: only the lines matching
\* `file:line:col - error TSxxxx: message` become errors.
RECURSIVE ParseDiagnostics(_)
ParseDiagnostics(lines) ==
  IF lines = <<>> THEN <<>>
  ELSE IF Head(lines).kind = "located"
    THEN <<ParsedError(Head(lines))>> \o ParseDiagnostics(Tail(lines))
  ELSE ParseDiagnostics(Tail(lines))

\* The loop over the formatted tsconfig read error: a matching line is
\* parsed, any other non-blank line is kept whole under the config file.
RECURSIVE ParseConfigError(_)
ParseConfigError(lines) ==
  IF lines = <<>> THEN <<>>
  ELSE IF Head(lines).kind = "located"
    THEN <<ParsedError(Head(lines))>> \o ParseConfigError(Tail(lines))
  ELSE IF Head(lines).kind = "global"
    THEN <<PlainError("tsconfig.json",
                      "error " \o Head(lines).code \o ": " \o Head(lines).text)>>
         \o ParseConfigError(Tail(lines))
  ELSE ParseConfigError(Tail(lines))

Setups == {"noTypeScript", "configPathMissing", "noConfig", "configError",
           "createThrows", "ok"}

\* Deprecated detection runs whatever the parameter says.
DetectionAlways(flag) == TRUE

\* if (detectDeprecated)
DetectionEnabled(flag) == flag

\* success whatever the errors are.
SuccessAlways(errs) == TRUE

\* success: errors.length === 0
Success(errs) == Len(errs) = 0

\* The FormatResult of a return before the program is created.
EarlyResult(how, lines) ==
  CASE how = "noTypeScript" -> [success |-> TRUE, errors |-> <<>>]
    [] how = "configPathMissing" ->
         [success |-> FALSE,
          errors |-> <<PlainError("tsconfig.json", "Provided tsconfig.json was not found")>>]
    [] how = "noConfig" ->
         [success |-> FALSE,
          errors |-> <<PlainError("cwd", "Could not find a valid tsconfig.json")>>]
    [] how = "configError" ->
         [success |-> FALSE, errors |-> ParseConfigError(lines)]
    [] how = "createThrows" ->
         [success |-> FALSE, errors |-> <<FailedError>>]

\* runTypeScriptCheck up to the first source file of checkDeprecatedUsage, or
\* to its return when it returns before that.
StartCheck ==
  /\ pc = "idle"
  /\ runs' = runs + 1
  /\ IF setup # "ok"
       THEN /\ pc' = "done"
            /\ result' = EarlyResult(setup, tsDiagnostics)
            /\ errors' = IF setup \in {"configError", "createThrows"}
                            THEN result'.errors ELSE <<>>
       ELSE /\ pc' = IF DetectionEnabled(detectDeprecated) THEN "file" ELSE "return"
            /\ errors' = ParseDiagnostics(tsDiagnostics)
            /\ UNCHANGED result
  /\ cursor' = FileStart(program, order[1])
  /\ checkedLocations' = FreshSet(checkedLocations)
  /\ suppressedLines' = FreshList(suppressedLines)
  /\ usedSuppressions' = FreshSet(usedSuppressions)
  /\ deprecationWarnings' = FreshList(deprecationWarnings)
  /\ UNCHANGED <<plugin, banner, config, given, firstResult>>

\* The head of the loop over program.getSourceFiles(): skip node_modules and
\* declaration files, else collect the file's suppression directives.
BeginFile ==
  /\ pc = "file"
  /\ LET skipped == cursor > 1 /\ program[cursor - 1].k = "NewDeclFile"
         next == NextFile(program, order, cursor)
     IN IF skipped
          THEN /\ pc' = IF next # 0 THEN "file" ELSE "unused"
               /\ cursor' = IF next # 0 THEN next ELSE cursor
               /\ UNCHANGED suppressedLines
          ELSE /\ pc' = "visit"
               /\ suppressedLines' = ScanComments(program, cursor, suppressedLines)
               /\ UNCHANGED cursor
  /\ UNCHANGED <<plugin, banner, config, given, errors, checkedLocations, usedSuppressions,
                 deprecationWarnings, result, runs, firstResult>>

\* visit(node) for the next node of the file, up to its ts.forEachChild; a
\* checker call that throws leaves checkDeprecatedUsage and is caught by
\* runTypeScriptCheck.
Visit ==
  /\ pc = "visit"
  /\ NextNode(program, cursor) # 0
  /\ LET n == NextNode(program, cursor)
         st == [checked |-> checkedLocations, used |-> usedSuppressions,
                warnings |-> deprecationWarnings]
         out == VisitNode(program, n, st, suppressedLines)
     IN IF out.threw
          THEN /\ errors' = Append(errors, FailedError)
               /\ result' = [success |-> FALSE, errors |-> errors']
               /\ pc' = "done"
               /\ UNCHANGED <<cursor, checkedLocations, usedSuppressions,
                              deprecationWarnings>>
          ELSE /\ checkedLocations' = out.st.checked
               /\ usedSuppressions' = out.st.used
               /\ deprecationWarnings' = out.st.warnings
               /\ cursor' = IF out.descend \/ program[n].k \notin ScopeKinds
                              THEN n + 1
                              ELSE SubtreeEnd(program, n) + 1
               /\ UNCHANGED <<errors, result, pc>>
  /\ UNCHANGED <<plugin, banner, config, given, suppressedLines, runs, firstResult>>

\* visit(sourceFile) returned: the next source file, or the end of the loop.
EndFile ==
  /\ pc = "visit"
  /\ NextNode(program, cursor) = 0
  /\ LET next == NextFile(program, order, FileEnd(program, cursor) + 1)
     IN /\ pc' = IF next # 0 THEN "file" ELSE "unused"
        /\ cursor' = IF next # 0 THEN next ELSE cursor
  /\ UNCHANGED <<plugin, banner, config, given, errors, checkedLocations, suppressedLines,
                 usedSuppressions, deprecationWarnings, result, runs, firstResult>>

\* The unused directives reported on the protected line itself.
RECURSIVE UnusedWarningsOnNextLine(_, _, _, _)
UnusedWarningsOnNextLine(sl, used, j, ws) ==
  IF j > Len(sl) THEN ws
  ELSE IF SuppressionKey(sl[j].file, sl[j].line) \notin used
    THEN UnusedWarningsOnNextLine(sl, used, j + 1,
           Append(ws, [file |-> sl[j].file, line |-> sl[j].line,
                       column |-> 1, message |-> Pmax002Message]))
  ELSE UnusedWarningsOnNextLine(sl, used, j + 1, ws)

\* Every entry of suppressedLines is reported, consumed or not.
RECURSIVE UnusedWarningsAll(_, _, _, _)
UnusedWarningsAll(sl, used, j, ws) ==
  IF j > Len(sl) THEN ws
  ELSE UnusedWarningsAll(sl, used, j + 1,
         Append(ws, [file |-> sl[j].file, line |-> sl[j].line - 1,
                     column |-> 1, message |-> Pmax002Message]))

\* The unused directives of suppressedLines from entry j on, appended to ws.
RECURSIVE UnusedWarnings(_, _, _, _)
UnusedWarnings(sl, used, j, ws) ==
  IF j > Len(sl) THEN ws
  ELSE IF SuppressionKey(sl[j].file, sl[j].line) \notin used
    THEN UnusedWarnings(sl, used, j + 1,
           Append(ws, [file |-> sl[j].file, line |-> sl[j].line - 1,
                       column |-> 1, message |-> Pmax002Message]))
  ELSE UnusedWarnings(sl, used, j + 1, ws)

\* The loop over suppressedLines after the traversal (PMAX002).
ReportUnused ==
  /\ pc = "unused"
  /\ deprecationWarnings' =
       UnusedWarnings(suppressedLines, usedSuppressions, 1, deprecationWarnings)
  /\ pc' = "return"
  /\ UNCHANGED <<plugin, banner, config, given, errors, cursor, checkedLocations,
                 suppressedLines, usedSuppressions, result, runs, firstResult>>

\* checkDeprecatedUsage returns; runTypeScriptCheck adds the warnings to its
\* errors and returns its FormatResult.
Return ==
  /\ pc = "return"
  /\ errors' = IF DetectionEnabled(detectDeprecated)
                  THEN errors \o deprecationWarnings ELSE errors
  /\ result' = [success |-> Success(errors'), errors |-> errors']
  /\ pc' = "done"
  /\ UNCHANGED <<plugin, banner, config, given, cursor, checkedLocations, suppressedLines,
                 usedSuppressions, deprecationWarnings, runs, firstResult>>

\* The caller runs runTypeScriptCheck again on the unchanged program.
CallAgain ==
  /\ pc = "done"
  /\ runs < MaxRuns
  /\ firstResult' = IF runs = 1 THEN result ELSE firstResult
  /\ pc' = "idle"
  /\ UNCHANGED <<plugin, banner, config, given, errors, cursor, checkedLocations,
                 suppressedLines, usedSuppressions, deprecationWarnings, result, runs>>

Next == StartCheck \/ BeginFile \/ Visit \/ EndFile \/ ReportUnused \/ Return

\* The orders in which the source files can come.
FileOrders(p) ==
  {files \in [1..FileOf(p, Len(p)) -> 1..FileOf(p, Len(p))] :
     \A j, k \in DOMAIN files : files[j] = files[k] => j = k}

\* runTypeScriptCheck is called again on the same program, whose source files
\* now come in another order.
CallReordered ==
  /\ pc = "done"
  /\ runs < MaxRuns
  /\ firstResult' = IF runs = 1 THEN result ELSE firstResult
  /\ order' \in FileOrders(program)
  /\ pc' = "idle"
  /\ UNCHANGED <<plugin, banner, config, program, tsDiagnostics, setup, detectDeprecated,
                 errors, cursor, checkedLocations, suppressedLines, usedSuppressions,
                 deprecationWarnings, result, runs>>

NextOrder == Next \/ CallReordered

-----------------------------------------------------------------------------
(* The plugin's buildStart hook. *)

\* What the Prettier CLI run comes to: no CLI found; the process cannot be
\* spawned; an exit code with or without output on stderr and stdout; or
\* resolving the CLI throws inside the promise executor.
PrettierRun(bin, spawnError, code, stderr, stdout) ==
  [bin |-> bin, spawnError |-> spawnError, code |-> code, stderr |-> stderr,
   stdout |-> stdout, executorThrows |-> FALSE]

PrettierRuns ==
  {PrettierRun(FALSE, FALSE, 0, FALSE, FALSE),
   PrettierRun(TRUE, TRUE, 0, FALSE, FALSE),
   PrettierRun(TRUE, FALSE, 0, FALSE, FALSE),
   PrettierRun(TRUE, FALSE, 0, FALSE, TRUE),
   PrettierRun(TRUE, FALSE, 1, FALSE, TRUE),
   PrettierRun(TRUE, FALSE, 2, TRUE, FALSE),
   PrettierRun(TRUE, FALSE, 2, FALSE, FALSE),
   [PrettierRun(TRUE, FALSE, 0, FALSE, FALSE) EXCEPT !.executorThrows = TRUE]}

FormatResult(success, errs, formattedFiles) ==
  [success |-> success, errors |-> errs, formattedFiles |-> formattedFiles]

\* runPrettierFormatProject, for a run whose promise settles.
RunPrettierFormatProject(run) ==
  IF ~run.bin
    THEN FormatResult(FALSE, <<PlainError("root", "Unable to locate a Prettier CLI.")>>, <<>>)
  ELSE IF run.spawnError
    THEN FormatResult(FALSE, <<PlainError("root", "Failed to run prettier: error")>>, <<>>)
  ELSE IF run.code = 2
    THEN FormatResult(FALSE,
                      IF run.stderr THEN <<PlainError("root", "Prettier error: stderr")>>
                                    ELSE <<>>,
                      <<>>)
  ELSE FormatResult(run.code = 0, <<>>, IF run.stdout THEN <<"a.ts">> ELSE <<>>)

\* The build stops on errors whatever failOnError says.
StopsBuildAlways(failOnError, errs) == Len(errs) > 0

\* errors.length > 0 and failOnError: buildStart throws.
StopsBuild(failOnError, errs) == Len(errs) > 0 /\ failOnError

\* resolve(rootDir, tsconfigPath): an absolute path stays, a relative one is
\* put under the root without its leading "./".
ResolvePath(tsconfigPath) ==
  IF StartsWith(tsconfigPath, 1, "/") THEN tsconfigPath
  ELSE IF StartsWith(tsconfigPath, 1, "./")
    THEN "/root/" \o SubSeq(tsconfigPath, 3, Len(tsconfigPath))
  ELSE "/root/" \o tsconfigPath

\* Every configured path is kept, repeated or not.
KeepAll(paths) == paths

\* Array.from(new Set(paths)): the first occurrence of every path.
RECURSIVE Distinct(_)
Distinct(paths) ==
  IF paths = <<>> THEN <<>>
  ELSE LET front == Distinct(SubSeq(paths, 1, Len(paths) - 1))
           last == paths[Len(paths)]
       IN IF \E i \in DOMAIN front : front[i] = last THEN front ELSE Append(front, last)

\* configResolved: the configured entries that are not empty, resolved,
\* without repetitions.
ResolvedTsconfigPaths(configured) ==
  LET named == SelectSeq(configured, LAMBDA tsconfigPath : tsconfigPath # "")
  IN Distinct([i \in DOMAIN named |-> ResolvePath(named[i])])

\* The tsconfigPath argument left undefined.
NoTsconfigPath == ""

\* tsconfigTargets of buildStart.
TsconfigTargets(configured) ==
  IF Len(ResolvedTsconfigPaths(configured)) > 0
    THEN ResolvedTsconfigPaths(configured)
    ELSE <<NoTsconfigPath>>

NoOptions ==
  [failOnError |-> TRUE, formatOnBuild |-> TRUE, typescript |-> TRUE,
   detectDeprecated |-> TRUE, bannerThrows |-> FALSE, reporterThrows |-> FALSE,
   tsVersion |-> TRUE, tsconfig |-> <<>>,
   prettier |-> PrettierRun(TRUE, FALSE, 0, FALSE, FALSE)]

\* No second call of buildStart on the plugin instance.
NoSecond ==
  [pc |-> "none", overlaps |-> FALSE, bannerApplied |-> FALSE, formats |-> 0,
   validated |-> FALSE]

\* buildStart not called.
NoBuild ==
  [pc |-> "none", isFormatting |-> FALSE, bannerFailed |-> FALSE, formatted |-> FALSE,
   formatResult |-> FormatResult(TRUE, <<>>, <<>>), threw |-> FALSE,
   index |-> 0, aggregatedErrors |-> <<>>, error |-> "", formats |-> 0,
   checked |-> <<>>, second |-> NoSecond]

\* How buildStart ends when an error is caught: thrown on, or logged.
Caught(failOnError) == IF failOnError THEN "rejected" ELSE "resolved"

\* buildStart is called: the guard against concurrent processing, then the
\* call of applyBanner, whose promise buildStart awaits.
BuildStart ==
  /\ build.pc = "start"
  /\ build' = IF build.isFormatting THEN [build EXCEPT !.pc = "resolved"]
              ELSE [build EXCEPT !.pc = "banner"]
  /\ UNCHANGED <<options, banner, config, given, errors, pc, cursor, checkedLocations, suppressedLines,
                 usedSuppressions, deprecationWarnings, result, runs, firstResult>>

\* applyBanner settled: its error is logged or thrown on, formatOnBuild is
\* tested, and the flag is set before runPrettierFormatProject is called.
BuildBanner ==
  /\ build.pc = "banner"
  /\ build' =
       IF options.bannerThrows /\ options.failOnError
         THEN [build EXCEPT !.pc = "rejected", !.bannerFailed = TRUE,
                            !.error = "banner"]
       ELSE IF ~options.formatOnBuild
         THEN [build EXCEPT !.pc = "resolved", !.bannerFailed = options.bannerThrows]
       ELSE [build EXCEPT !.pc = "format", !.bannerFailed = options.bannerThrows,
                          !.isFormatting = TRUE]
  /\ UNCHANGED <<options, banner, config, given, errors, pc, cursor, checkedLocations, suppressedLines,
                 usedSuppressions, deprecationWarnings, result, runs, firstResult>>

\* runPrettierFormatProject returned: report, stop or go on to TypeScript
\* validation.  When the executor threw, the promise never settles and
\* buildStart stays here.
BuildFormat ==
  /\ build.pc = "format"
  /\ ~options.prettier.executorThrows
  /\ LET r == RunPrettierFormatProject(options.prettier)
         seen == [build EXCEPT !.formatted = TRUE, !.formatResult = r,
                               !.formats = @ + 1]
     IN build' =
          IF Len(r.errors) > 0 /\ options.reporterThrows
            THEN [seen EXCEPT !.pc = Caught(options.failOnError), !.threw = TRUE,
                              !.error = "reporter", !.isFormatting = FALSE]
          ELSE IF StopsBuild(options.failOnError, r.errors)
            THEN [seen EXCEPT !.pc = "rejected", !.isFormatting = FALSE,
                              !.error = "Prettier formatting failed"]
          ELSE IF options.typescript /\ Len(r.errors) = 0 /\ options.tsVersion
            THEN [seen EXCEPT !.pc = "ts", !.index = 0]
          ELSE [seen EXCEPT !.pc = "resolved", !.isFormatting = FALSE]
  /\ UNCHANGED <<options, banner, config, given, errors, pc, cursor, checkedLocations, suppressedLines,
                 usedSuppressions, deprecationWarnings, result, runs, firstResult>>

\* The loop over tsconfigTargets calls runTypeScriptCheck for the next one.
BuildCallTs ==
  /\ build.pc = "ts"
  /\ build.index < Len(TsconfigTargets(options.tsconfig))
  /\ pc \in {"off", "done"}
  /\ pc' = "idle"
  /\ detectDeprecated' = options.detectDeprecated
  /\ LET tsconfigPath == TsconfigTargets(options.tsconfig)[build.index + 1]
     IN /\ \E how \in {"ok", IF tsconfigPath = NoTsconfigPath
                                THEN "noConfig" ELSE "configPathMissing"} :
             setup' = how
        /\ build' = [build EXCEPT !.pc = "tsWait", !.checked = Append(@, tsconfigPath)]
  /\ UNCHANGED <<options, banner, config, program, order, tsDiagnostics, errors, cursor, checkedLocations,
                 suppressedLines, usedSuppressions, deprecationWarnings, result, runs,
                 firstResult>>

\* runTypeScriptCheck returned: collect its errors; after the last target
\* stop the build or let it go on.
BuildTsReturned ==
  /\ build.pc = "tsWait"
  /\ pc = "done"
  /\ LET aggregated == build.aggregatedErrors \o result.errors
         index == build.index + 1
     IN build' =
          IF index < Len(TsconfigTargets(options.tsconfig))
            THEN [build EXCEPT !.pc = "ts", !.aggregatedErrors = aggregated,
                               !.index = index]
          ELSE IF StopsBuild(options.failOnError, aggregated)
            THEN [build EXCEPT !.pc = "rejected", !.aggregatedErrors = aggregated,
                               !.index = index, !.isFormatting = FALSE,
                               !.error = "TypeScript validation failed"]
          ELSE [build EXCEPT !.pc = "resolved", !.aggregatedErrors = aggregated,
                             !.index = index, !.isFormatting = FALSE]
  /\ UNCHANGED <<options, banner, config, given, errors, pc, cursor, checkedLocations, suppressedLines,
                 usedSuppressions, deprecationWarnings, result, runs, firstResult>>

\* buildStart is called a second time on the plugin instance, after the
\* first call: the guard against concurrent processing, then the call of
\* applyBanner.
SecondStart ==
  /\ build.pc # "start"
  /\ build.second.pc = "none"
  /\ build' =
       [build EXCEPT !.second =
          [@ EXCEPT !.pc = IF build.isFormatting THEN "resolved" ELSE "banner",
                    !.overlaps = build.pc \notin {"resolved", "rejected"}]]
  /\ UNCHANGED <<options, banner, config, given, errors, pc, cursor, checkedLocations, suppressedLines,
                 usedSuppressions, deprecationWarnings, result, runs, firstResult>>

\* applyBanner of the second call settled.
SecondBanner ==
  /\ build.second.pc = "banner"
  /\ build' =
       IF options.bannerThrows /\ options.failOnError
         THEN [build EXCEPT !.second.pc = "rejected"]
       ELSE IF ~options.formatOnBuild
         THEN [build EXCEPT !.second.pc = "resolved",
                            !.second.bannerApplied = ~options.bannerThrows]
       ELSE [build EXCEPT !.second.pc = "format",
                          !.second.bannerApplied = ~options.bannerThrows,
                          !.isFormatting = TRUE]
  /\ UNCHANGED <<options, banner, config, given, errors, pc, cursor, checkedLocations, suppressedLines,
                 usedSuppressions, deprecationWarnings, result, runs, firstResult>>

\* runPrettierFormatProject of the second call returned.
SecondFormat ==
  /\ build.second.pc = "format"
  /\ ~options.prettier.executorThrows
  /\ LET r == RunPrettierFormatProject(options.prettier)
         seen == [build EXCEPT !.second.formats = @ + 1]
     IN build' =
          IF Len(r.errors) > 0 /\ options.reporterThrows
            THEN [seen EXCEPT !.second.pc = Caught(options.failOnError),
                              !.isFormatting = FALSE]
          ELSE IF StopsBuild(options.failOnError, r.errors)
            THEN [seen EXCEPT !.second.pc = "rejected", !.isFormatting = FALSE]
          ELSE IF options.typescript /\ Len(r.errors) = 0 /\ options.tsVersion
            THEN [seen EXCEPT !.second.pc = "ts"]
          ELSE [seen EXCEPT !.second.pc = "resolved", !.isFormatting = FALSE]
  /\ UNCHANGED <<options, banner, config, given, errors, pc, cursor, checkedLocations, suppressedLines,
                 usedSuppressions, deprecationWarnings, result, runs, firstResult>>

\* The TypeScript validation of the second call, every target, returned with
\* or without errors.
SecondTs ==
  /\ build.second.pc = "ts"
  /\ \E failed \in BOOLEAN :
       build' = [build EXCEPT
                   !.second.pc = IF failed /\ options.failOnError
                                   THEN "rejected" ELSE "resolved",
                   !.second.validated = TRUE,
                   !.isFormatting = FALSE]
  /\ UNCHANGED <<options, banner, config, given, errors, pc, cursor, checkedLocations, suppressedLines,
                 usedSuppressions, deprecationWarnings, result, runs, firstResult>>

-----------------------------------------------------------------------------
(* applyBanner: the banner of .prettierbanner at the head of every file. *)

MAX_BANNER_LINES == 20

\* content.indexOf('\n', from) with positions counted from 1; 0 for none.
IndexOfNewline(content, from) ==
  LET found == {i \in from..Len(content) : SubSeq(content, i, i) = "\n"}
  IN IF found = {} THEN 0 ELSE CHOOSE i \in found : \A j \in found : i <= j

\* The characters from..to of content, none when from > to.
Slice(content, from, to) == IF from > to THEN "" ELSE SubSeq(content, from, to)

\* content.replace(/\r/g, '')
RECURSIVE RemoveCarriageReturns(_)
RemoveCarriageReturns(content) ==
  LET found == {i \in 1..Len(content) : SubSeq(content, i, i) = "\r"}
      first == CHOOSE i \in found : \A j \in found : i <= j
  IN IF found = {} THEN content
     ELSE Slice(content, 1, first - 1)
            \o RemoveCarriageReturns(Slice(content, first + 1, Len(content)))

\* content.split('\n') from position from on.
RECURSIVE SplitLines(_, _)
SplitLines(content, from) ==
  LET n == IndexOfNewline(content, from)
  IN IF n = 0 THEN <<Slice(content, from, Len(content))>>
     ELSE <<Slice(content, from, n - 1)>> \o SplitLines(content, n + 1)

DetectPreferredNewline(content) ==
  IF \E i \in 1..Len(content) : StartsWith(content, i, "\r\n") THEN "\r\n" ELSE "\n"

CountLogicalLines(content) ==
  LET segments == SplitLines(RemoveCarriageReturns(content), 1)
  IN IF segments[Len(segments)] = "" THEN Len(segments) - 1 ELSE Len(segments)

EnsureTrailingBlankLine(content) ==
  LET newline == DetectPreferredNewline(content)
      canonical == IF Len(content) > 0 /\ SubSeq(content, Len(content), Len(content)) = "\n"
                     THEN content
                     ELSE content \o newline
      segments == SplitLines(RemoveCarriageReturns(canonical), 1)
      hasTrailingBlank ==
        /\ Len(segments) >= 2
        /\ segments[Len(segments)] = ""
        /\ segments[Len(segments) - 1] = ""
  IN IF hasTrailingBlank THEN canonical ELSE canonical \o newline

\* line.trim().length === 0
IsWhitespace(line) == \A i \in 1..Len(line) : IsSpace(SubSeq(line, i, i))

\* No banner text is turned down.
ValidateBannerShapeAny(content) == TRUE

\* validateBannerShape does not throw.
ValidateBannerShape(content) ==
  LET lines == SplitLines(RemoveCarriageReturns(content), 1)
  IN /\ \E i \in DOMAIN lines : Len(lines[i]) > 0
     /\ \A i \in DOMAIN lines :
          \/ Len(lines[i]) = 0
          \/ StartsWith(lines[i], 1, "//")
          \/ IsWhitespace(lines[i])

\* loadBanner of an existing file: the canonical banner, or the throw.
LoadBanner(rawContent) ==
  IF ~ValidateBannerShape(rawContent) THEN [ok |-> FALSE, content |-> ""]
  ELSE LET canonical == EnsureTrailingBlankLine(rawContent)
       IN IF CountLogicalLines(canonical) > MAX_BANNER_LINES
            THEN [ok |-> FALSE, content |-> ""]
            ELSE [ok |-> TRUE, content |-> canonical]

NoCandidate == [found |-> FALSE, content |-> "", consumed |-> 0]

\* The loop of extractBannerCandidate; position is the loop's cursor, counted
\* from 1.
RECURSIVE ScanBanner(_, _, _)
ScanBanner(content, position, linesRead) ==
  IF ~(linesRead < MAX_BANNER_LINES /\ position <= Len(content)) THEN NoCandidate
  ELSE LET nextNewline == IndexOfNewline(content, position)
           segmentEnd == IF nextNewline = 0 THEN Len(content) ELSE nextNewline
           last == IF nextNewline = 0 THEN Len(content) ELSE nextNewline - 1
           lineEnd == IF last >= position /\ SubSeq(content, last, last) = "\r"
                        THEN last - 1
                        ELSE last
           line == Slice(content, position, lineEnd)
       IN IF ~StartsWith(line, 1, "//") /\ ~IsWhitespace(line) THEN NoCandidate
          ELSE IF Len(line) = 0 \/ nextNewline = 0
            THEN [found |-> TRUE, content |-> Slice(content, 1, segmentEnd),
                  consumed |-> segmentEnd]
          ELSE ScanBanner(content, segmentEnd + 1, linesRead + 1)

ExtractBannerCandidate(content) == ScanBanner(content, 1, 0)

SeparateShebang(content) ==
  IF ~StartsWith(content, 1, "#!") THEN [shebang |-> "", rest |-> content]
  ELSE LET newlineIndex == IndexOfNewline(content, 1)
       IN IF newlineIndex = 0 THEN [shebang |-> content, rest |-> ""]
          ELSE [shebang |-> Slice(content, 1, newlineIndex),
                rest |-> Slice(content, newlineIndex + 1, Len(content))]

\* processFile: what it returns and what the file holds afterwards.
ProcessFile(original, bannerContent) ==
  LET parts == SeparateShebang(original)
      candidate == ExtractBannerCandidate(parts.rest)
      body == IF candidate.found
                THEN Slice(parts.rest, candidate.consumed + 1, Len(parts.rest))
                ELSE parts.rest
      newContent == parts.shebang \o bannerContent \o body
  IN IF candidate.found /\ candidate.content = bannerContent
       THEN [action |-> "none", content |-> original]
     ELSE IF newContent = original THEN [action |-> "none", content |-> original]
     ELSE [action |-> IF candidate.found THEN "replaced" ELSE "inserted",
           content |-> newContent]

NoSummary == [total |-> 0, inserted |-> 0, replaced |-> 0]

\* applyBanner not called.
NoBanner ==
  [pc |-> "none", exists |-> FALSE, rawContent |-> "", content |-> "", files |-> <<>>,
   before |-> <<>>, index |-> 1, summary |-> NoSummary, passes |-> 0]

\* applyBanner up to the loop over the target files.
ApplyLoad ==
  /\ banner.pc = "start"
  /\ LET loaded == LoadBanner(banner.rawContent)
         called == [banner EXCEPT !.passes = @ + 1, !.before = banner.files,
                                  !.summary = NoSummary, !.index = 1]
     IN banner' =
          IF ~banner.exists THEN [called EXCEPT !.pc = "skipped"]
          ELSE IF ~loaded.ok THEN [called EXCEPT !.pc = "threw"]
          ELSE IF Len(banner.files) = 0
            THEN [called EXCEPT !.pc = "done", !.content = loaded.content]
          ELSE [called EXCEPT !.pc = "files", !.content = loaded.content,
                              !.summary = [NoSummary EXCEPT !.total = Len(banner.files)]]
  /\ UNCHANGED <<plugin, config, given, errors, pc, cursor, checkedLocations, suppressedLines,
                 usedSuppressions, deprecationWarnings, result, runs, firstResult>>

\* One round of the loop: processFile and the counting of its answer.
ApplyFile ==
  /\ banner.pc = "files"
  /\ banner.index <= Len(banner.files)
  /\ LET done == ProcessFile(banner.files[banner.index], banner.content)
     IN banner' =
          [banner EXCEPT
             !.files[banner.index] = done.content,
             !.index = @ + 1,
             !.summary.inserted = IF done.action = "inserted" THEN @ + 1 ELSE @,
             !.summary.replaced = IF done.action = "replaced" THEN @ + 1 ELSE @]
  /\ UNCHANGED <<plugin, config, given, errors, pc, cursor, checkedLocations, suppressedLines,
                 usedSuppressions, deprecationWarnings, result, runs, firstResult>>

\* After the loop applyBanner logs what it touched and returns the summary.
ApplyReturn ==
  /\ banner.pc = "files"
  /\ banner.index > Len(banner.files)
  /\ banner' = [banner EXCEPT !.pc = "done"]
  /\ UNCHANGED <<plugin, config, given, errors, pc, cursor, checkedLocations, suppressedLines,
                 usedSuppressions, deprecationWarnings, result, runs, firstResult>>

\* The next build applies the banner again.
ApplyAgain ==
  /\ banner.pc = "done"
  /\ banner.passes < MaxApplies
  /\ banner' = [banner EXCEPT !.pc = "start"]
  /\ UNCHANGED <<plugin, config, given, errors, pc, cursor, checkedLocations, suppressedLines,
                 usedSuppressions, deprecationWarnings, result, runs, firstResult>>

NextBanner == ApplyLoad \/ ApplyFile \/ ApplyReturn \/ ApplyAgain

-----------------------------------------------------------------------------
(* generatePrettierConfigFiles: the templates for .prettierrc and
   .prettierignore. *)

PRETTIER_CONFIG_FILES ==
  <<".prettierrc", ".prettierrc.json", ".prettierrc.json5", ".prettierrc.yaml",
    ".prettierrc.yml", ".prettierrc.js", ".prettierrc.cjs", ".prettierrc.mjs",
    ".prettierrc.ts", ".prettierrc.cts", ".prettierrc.mts", ".prettierrc.toml",
    "prettier.config.js", "prettier.config.cjs", "prettier.config.mjs",
    "prettier.config.ts", "prettier.config.cts", "prettier.config.mts">>

PACKAGE_MANIFEST_FILES == <<"package.json", "package.yaml", "package.yml">>

\* The files of the root directory that the generator looks at.
RootFiles ==
  {PRETTIER_CONFIG_FILES[i] : i \in DOMAIN PRETTIER_CONFIG_FILES}
    \cup {PACKAGE_MANIFEST_FILES[i] : i \in DOMAIN PACKAGE_MANIFEST_FILES}
    \cup {".prettierignore"}

\* No such file.
Absent == "<absent>"

\* JSON.stringify(prettierrcTemplate, null, 2) + '\n'
PrettierrcContent ==
  "{\n  \"semi\": true,\n  \"singleQuote\": true,\n  \"trailingComma\": \"es5\"\n}\n"

\* The head of prettierignoreTemplate.
PrettierignoreContent == "# Dependencies\nnode_modules/\n"

\* No path is there.
FileExistsNever(root, fileName) == FALSE

\* fileExists: fs.access succeeds.
FileExists(root, fileName) == root[fileName] # Absent

\* JSON.parse of a package.json: whether it parses, and its own keys.
JsonParse(content) ==
  CASE content = "{\"name\":\"app\",\"prettier\":{\"semi\":false}}" ->
         [ok |-> TRUE, keys |-> {"name", "prettier"}]
    [] content = "{\"name\":\"app\"}" -> [ok |-> TRUE, keys |-> {"name"}]
    [] OTHER -> [ok |-> FALSE, keys |-> {}]

\* /^['"]?prettier['"]?\s*:/ on the trimmed line.
HasPrettierEntry(line) ==
  LET start == SkipSpace(line, 1)
      word == IF StartsWith(line, start, "'") \/ StartsWith(line, start, "\"")
                THEN start + 1 ELSE start
      after == word + Len("prettier")
      close == IF StartsWith(line, after, "'") \/ StartsWith(line, after, "\"")
                 THEN after + 1 ELSE after
  IN /\ StartsWith(line, word, "prettier")
     /\ StartsWith(line, SkipSpace(line, close), ":")

\* The manifest embeds a Prettier configuration; a manifest that cannot be
\* parsed is logged and passed over.
ManifestHasPrettier(manifestName, content) ==
  IF manifestName = "package.json"
    THEN JsonParse(content).ok /\ "prettier" \in JsonParse(content).keys
    ELSE LET lines == SplitLines(RemoveCarriageReturns(content), 1)
         IN \E i \in DOMAIN lines : HasPrettierEntry(lines[i])

\* findExistingPrettierConfig: the first known config file there is, else
\* the first manifest with a prettier entry, else nothing.
FindExistingPrettierConfig(root) ==
  LET files == {i \in DOMAIN PRETTIER_CONFIG_FILES :
                  FileExists(root, PRETTIER_CONFIG_FILES[i])}
      manifests == {i \in DOMAIN PACKAGE_MANIFEST_FILES :
                      /\ FileExists(root, PACKAGE_MANIFEST_FILES[i])
                      /\ ManifestHasPrettier(PACKAGE_MANIFEST_FILES[i],
                                             root[PACKAGE_MANIFEST_FILES[i]])}
  IN IF files # {}
       THEN PRETTIER_CONFIG_FILES[CHOOSE i \in files : \A j \in files : i <= j]
     ELSE IF manifests # {}
       THEN PACKAGE_MANIFEST_FILES[CHOOSE i \in manifests : \A j \in manifests : i <= j]
     ELSE Absent

\* generatePrettierConfigFiles not called.
NoConfig ==
  [pc |-> "none", root |-> [f \in RootFiles |-> Absent], before |-> [f \in RootFiles |-> Absent],
   readOnly |-> {}, existing |-> Absent, filesGenerated |-> FALSE, log |-> <<>>]

\* try { await fs.writeFile(...); logger.info(...); filesGenerated = true }
\* catch { logger.warn(...) }
TryWrite(c, fileName, content) ==
  IF fileName \in c.readOnly
    THEN [c EXCEPT !.log = Append(@, "Failed to generate " \o fileName)]
    ELSE [c EXCEPT !.root[fileName] = content, !.filesGenerated = TRUE,
                   !.log = Append(@, "Generated " \o fileName)]

\* generatePrettierConfigFiles up to the answer of findExistingPrettierConfig.
GenerateFind ==
  /\ config.pc = "start"
  /\ config' = [config EXCEPT !.pc = "prettierrc",
                              !.existing = FindExistingPrettierConfig(config.root)]
  /\ UNCHANGED <<plugin, banner, given, errors, pc, cursor, checkedLocations,
                 suppressedLines, usedSuppressions, deprecationWarnings, result, runs,
                 firstResult>>

\* Generate .prettierrc if no configuration was found, up to the test for
\* .prettierignore.
GeneratePrettierrc ==
  /\ config.pc = "prettierrc"
  /\ config' =
       IF config.existing = Absent
         THEN [TryWrite(config, ".prettierrc", PrettierrcContent) EXCEPT !.pc = "prettierignore"]
         ELSE [config EXCEPT !.pc = "prettierignore",
                             !.log = Append(@, "Existing Prettier config detected")]
  /\ UNCHANGED <<plugin, banner, given, errors, pc, cursor, checkedLocations,
                 suppressedLines, usedSuppressions, deprecationWarnings, result, runs,
                 firstResult>>

\* Generate .prettierignore if it does not exist, and return.
GeneratePrettierignore ==
  /\ config.pc = "prettierignore"
  /\ LET written == IF ~FileExists(config.root, ".prettierignore")
                      THEN TryWrite(config, ".prettierignore", PrettierignoreContent)
                      ELSE config
     IN config' =
          [written EXCEPT !.pc = "done",
                          !.log = IF written.filesGenerated
                                    THEN Append(@, "Prettier config files have been generated")
                                    ELSE @]
  /\ UNCHANGED <<plugin, banner, given, errors, pc, cursor, checkedLocations,
                 suppressedLines, usedSuppressions, deprecationWarnings, result, runs,
                 firstResult>>

NextConfig == GenerateFind \/ GeneratePrettierrc \/ GeneratePrettierignore

NextBuild ==
  \/ BuildStart \/ BuildBanner \/ BuildFormat \/ BuildCallTs \/ BuildTsReturned
  \/ StartCheck \/ BeginFile \/ Visit \/ EndFile \/ ReportUnused \/ Return

\* Two calls of buildStart on one plugin instance, interleaved at their
\* await points.
NextConcurrent ==
  \/ NextBuild
  \/ SecondStart \/ SecondBanner \/ SecondFormat \/ SecondTs

-----------------------------------------------------------------------------
(* Specifications: the same steps over different families of programs. *)

InitOver(items) ==
  /\ options = NoOptions
  /\ build = NoBuild
  /\ banner = NoBanner
  /\ config = NoConfig
  /\ program \in ProgramsOver(items)
  /\ order = SourceOrder(program)
  /\ tsDiagnostics = <<>>
  /\ setup = "ok"
  /\ detectDeprecated = TRUE
  /\ errors = <<>>
  /\ pc = "idle"
  /\ cursor = 1
  /\ checkedLocations = {}
  /\ suppressedLines = <<>>
  /\ usedSuppressions = {}
  /\ deprecationWarnings = <<>>
  /\ result = NoResult
  /\ runs = 0
  /\ firstResult = NoResult

\* Usages, calls, declarations and function-like scopes, with directives.
ItemsMain ==
  {Directive, Blank, NewFile, Close,
   Item("CallExpression", 2, FALSE, FALSE),
   DeclarationName("FunctionDeclaration", 2)}
  \cup {Item("FunctionDeclaration", s, FALSE, FALSE) : s \in {1, 2, 3}}
  \cup {Item("Identifier", s, same, FALSE) : s \in {1, 2, 3, 4, 5}, same \in BOOLEAN}
  \cup {Item("Identifier", s, FALSE, FALSE) : s \in {6, 7, 8, 9}}

Init == InitOver(ItemsMain)

Spec == Init /\ [][Next]_vars

\* Import specifiers, default-import clauses and export specifiers, with
\* directives.
ItemsImports ==
  {Directive, Blank, NewFile,
   Item("ExportSpecifier", 10, FALSE, TRUE),
   Item("Identifier", 2, FALSE, FALSE)}
  \cup {Item("ImportSpecifier", s, same, FALSE) : s \in {10, 11, 12, 14}, same \in BOOLEAN}
  \cup {Item("ImportClause", s, FALSE, FALSE) : s \in {10, 11, 14}}
  \cup {Item("ExportSpecifier", s, FALSE, FALSE) : s \in {10, 11}}

InitImports == InitOver(ItemsImports)

SpecImports == InitImports /\ [][Next]_vars

\* Two calls of runTypeScriptCheck on one program.
ItemsTwice ==
  {Directive, Blank, NewFile, Close,
   Item("FunctionDeclaration", 2, FALSE, FALSE),
   Item("CallExpression", 2, FALSE, FALSE),
   Item("ImportSpecifier", 10, FALSE, FALSE)}
  \cup {Item("Identifier", s, same, FALSE) : s \in {1, 2}, same \in BOOLEAN}
  \cup {Item("Identifier", s, FALSE, FALSE) : s \in {3, 7}}

InitTwice == InitOver(ItemsTwice)

NextTwice == Next \/ CallAgain

SpecTwice == InitTwice /\ [][NextTwice]_vars

\* Several source files, with directives, references and a lookup that
\* fails, read in one order and then in another.
ItemsOrder ==
  {Directive, NewFile, NewDeclFile,
   Item("Identifier", 2, FALSE, FALSE),
   Item("Identifier", 3, FALSE, FALSE),
   Item("CallExpression", Throws, FALSE, FALSE)}

InitOrder == InitOver(ItemsOrder)

SpecOrder == InitOrder /\ [][NextOrder]_vars

\* Nodes whose symbol, alias or tag lookup fails.
ItemsFaults ==
  {Directive, NewFile,
   Item("Identifier", 2, FALSE, FALSE),
   Item("Identifier", 1, FALSE, FALSE),
   Item("Identifier", NoSymbol, FALSE, FALSE),
   Item("Identifier", Throws, FALSE, FALSE),
   Item("Identifier", 9, FALSE, FALSE),
   Item("CallExpression", Throws, FALSE, FALSE)}
  \cup {Item("ImportSpecifier", s, FALSE, FALSE) : s \in {10, 12, 13}}

InitFaults == InitOver(ItemsFaults)

SpecFaults == InitFaults /\ [][Next]_vars

\* Every way runTypeScriptCheck returns: TypeScript or the tsconfig missing
\* or unreadable, compile diagnostics, detection switched on and off.
ItemsOptions ==
  {Directive, NewFile,
   Item("Identifier", 1, FALSE, FALSE),
   Item("Identifier", 2, FALSE, FALSE),
   Item("Identifier", Throws, FALSE, FALSE)}

DiagnosticOutputs ==
  UNION {[1..n -> DiagnosticLines] : n \in 0..MaxDiagnostics}

InitOptions ==
  /\ options = NoOptions
  /\ build = NoBuild
  /\ banner = NoBanner
  /\ config = NoConfig
  /\ program \in ProgramsOver(ItemsOptions)
  /\ order = SourceOrder(program)
  /\ tsDiagnostics \in DiagnosticOutputs
  /\ setup \in Setups
  /\ detectDeprecated \in BOOLEAN
  \* ts.formatDiagnostic writes the error line of the diagnostic it is given
  /\ setup = "configError" =>
       \E j \in DOMAIN tsDiagnostics : tsDiagnostics[j].kind # "context"
  /\ errors = <<>>
  /\ pc = "idle"
  /\ cursor = 1
  /\ checkedLocations = {}
  /\ suppressedLines = <<>>
  /\ usedSuppressions = {}
  /\ deprecationWarnings = <<>>
  /\ result = NoResult
  /\ runs = 0
  /\ firstResult = NoResult

SpecOptions == InitOptions /\ [][Next]_vars

\* Comments of every form in front of usages.
CommentTexts ==
  {"// " \o DirectiveText,
   "//" \o DirectiveText \o ": legacy",
   "// Check for " \o DirectiveText \o " directive",
   "/// " \o DirectiveText,
   "// plain",
   "/* " \o DirectiveText \o " */",
   "/*\n// " \o DirectiveText \o "\n*/",
   "/**\n// " \o DirectiveText \o " */"}

ItemsComments ==
  {NewFile, Item("Identifier", 1, FALSE, FALSE)}
  \cup {Comment(t) : t \in CommentTexts}
  \cup {Item("Identifier", 2, same, FALSE) : same \in BOOLEAN}

InitComments == InitOver(ItemsComments)

SpecComments == InitComments /\ [][Next]_vars

\* The names of declarations of every kind, of a deprecated symbol.
ItemsDeclarations ==
  {Directive, NewFile, Item("Identifier", 15, FALSE, FALSE)}
  \cup {DeclarationName(parent, 15) : parent \in SkippedDeclarations \cup OtherDeclarations}

InitDeclarations == InitOver(ItemsDeclarations)

SpecDeclarations == InitDeclarations /\ [][Next]_vars

\* Export declarations and type-alias declarations, marked and not, around
\* export specifiers and type references.
ItemsExports ==
  {NewFile, Close, Directive,
   Item("TypeAliasDeclaration", 16, FALSE, TRUE),
   Item("TypeAliasDeclaration", 4, FALSE, TRUE),
   Item("TypeAliasDeclaration", 17, FALSE, FALSE)}
  \cup {Item("ExportDeclaration", NoSymbol, FALSE, doc) : doc \in BOOLEAN}
  \cup {Item("ExportSpecifier", s, FALSE, FALSE) : s \in {10, 11, 14}}
  \cup {Item("TypeReference", s, FALSE, FALSE) : s \in {4, 16, 17}}

InitExports == InitOver(ItemsExports)

SpecExports == InitExports /\ [][Next]_vars

\* JSX elements with attributes, in and out of deprecated functions.
ItemsJsx ==
  {NewFile, Close, Directive,
   Item("FunctionDeclaration", 2, FALSE, FALSE),
   Item("FunctionDeclaration", 1, FALSE, FALSE),
   Item("Identifier", 2, FALSE, FALSE)}
  \cup {JsxElement(1, a, same) : a \in 0..6, same \in BOOLEAN}
  \cup {JsxElement(2, a, FALSE) : a \in {0, 1}}

InitJsx == InitOver(ItemsJsx)

SpecJsx == InitJsx /\ [][Next]_vars

\* buildStart under every combination of options and step outcomes.
ItemsBuild == {Item("Identifier", 1, FALSE, FALSE), Item("Identifier", 2, FALSE, FALSE)}

\* The typescript option as true, or as the first tsconfig files of a list.
TsconfigNames == <<"tsconfig.json", "tsconfig.a.json", "tsconfig.b.json", "tsconfig.c.json">>

OptionSets ==
  [failOnError : BOOLEAN, formatOnBuild : BOOLEAN, typescript : BOOLEAN,
   detectDeprecated : BOOLEAN, bannerThrows : BOOLEAN, reporterThrows : BOOLEAN,
   tsVersion : BOOLEAN,
   tsconfig : {<<>>} \cup {SubSeq(TsconfigNames, 1, n) : n \in 2..MaxTargets},
   prettier : PrettierRuns]

InitBuild ==
  /\ options \in OptionSets
  /\ \E busy \in BOOLEAN : build = [NoBuild EXCEPT !.pc = "start", !.isFormatting = busy]
  /\ banner = NoBanner
  /\ config = NoConfig
  /\ program \in ProgramsOver(ItemsBuild)
  /\ order = SourceOrder(program)
  /\ tsDiagnostics \in {<<>>, <<LocatedLine>>}
  /\ setup = "ok"
  /\ detectDeprecated = TRUE
  /\ errors = <<>>
  /\ pc = "off"
  /\ cursor = 1
  /\ checkedLocations = {}
  /\ suppressedLines = <<>>
  /\ usedSuppressions = {}
  /\ deprecationWarnings = <<>>
  /\ result = NoResult
  /\ runs = 0
  /\ firstResult = NoResult

SpecBuild == InitBuild /\ [][NextBuild]_vars

\* buildStart with the typescript option a list of tsconfig paths, some
\* empty, repeated or spelt in two ways, over a file with a current or an
\* obsolete name.
ConfiguredPaths == {"", "tsconfig.json", "./tsconfig.json", "tsconfig.a.json"}

TargetOptions ==
  {[NoOptions EXCEPT !.failOnError = fail, !.tsconfig = configured, !.prettier = run] :
     fail \in BOOLEAN,
     configured \in UNION {[1..n -> ConfiguredPaths] : n \in 0..(MaxTargets + 1)},
     run \in {PrettierRun(TRUE, FALSE, 0, FALSE, TRUE), PrettierRun(TRUE, FALSE, 2, TRUE, FALSE)}}

InitTargets ==
  /\ options \in TargetOptions
  /\ build = [NoBuild EXCEPT !.pc = "start"]
  /\ banner = NoBanner
  /\ config = NoConfig
  /\ program \in {<<Item("Identifier", 1, FALSE, FALSE)>>, <<Item("Identifier", 2, FALSE, FALSE)>>}
  /\ order = SourceOrder(program)
  /\ tsDiagnostics = <<>>
  /\ setup = "ok"
  /\ detectDeprecated = TRUE
  /\ errors = <<>>
  /\ pc = "off"
  /\ cursor = 1
  /\ checkedLocations = {}
  /\ suppressedLines = <<>>
  /\ usedSuppressions = {}
  /\ deprecationWarnings = <<>>
  /\ result = NoResult
  /\ runs = 0
  /\ firstResult = NoResult

SpecTargets == InitTargets /\ [][NextBuild]_vars

\* buildStart called twice on one plugin instance.
ConcurrentOptions ==
  {[NoOptions EXCEPT !.failOnError = fail, !.formatOnBuild = format,
                     !.typescript = typescript, !.bannerThrows = throws,
                     !.prettier = run] :
     fail \in BOOLEAN, format \in BOOLEAN, typescript \in BOOLEAN,
     throws \in BOOLEAN, run \in PrettierRuns}

InitConcurrent ==
  /\ options \in ConcurrentOptions
  /\ build = [NoBuild EXCEPT !.pc = "start"]
  /\ banner = NoBanner
  /\ config = NoConfig
  /\ program \in {<<Item("Identifier", 1, FALSE, FALSE)>>, <<Item("Identifier", 2, FALSE, FALSE)>>}
  /\ order = SourceOrder(program)
  /\ tsDiagnostics = <<>>
  /\ setup = "ok"
  /\ detectDeprecated = TRUE
  /\ errors = <<>>
  /\ pc = "off"
  /\ cursor = 1
  /\ checkedLocations = {}
  /\ suppressedLines = <<>>
  /\ usedSuppressions = {}
  /\ deprecationWarnings = <<>>
  /\ result = NoResult
  /\ runs = 0
  /\ firstResult = NoResult

SpecConcurrent == InitConcurrent /\ [][NextConcurrent]_vars

\* One call of buildStart that is always resumed: a continuation whose
\* awaited promise has settled is run by the event loop, and the analyzer
\* runs to its end once called.
SpecLive == InitConcurrent /\ [][NextBuild]_vars /\ WF_vars(NextBuild)

\* applyBanner over banners of comment, empty and blank lines, with either
\* line ending and with or without a final one, and one banner with code.
BannerLines == {"// a", "", " "}

RECURSIVE JoinLines(_, _)
JoinLines(lines, newline) ==
  IF Len(lines) = 1 THEN lines[1]
  ELSE lines[1] \o newline \o JoinLines(Tail(lines), newline)

\* n copies of a line.
RECURSIVE RepeatLine(_, _)
RepeatLine(line, n) == IF n = 0 THEN "" ELSE line \o RepeatLine(line, n - 1)

\* The longest banner that fits and the shortest that does not.
LongBannerTexts ==
  {RepeatLine("// a\n", MAX_BANNER_LINES - 1), RepeatLine("// a\n", MAX_BANNER_LINES)}

BannerTexts ==
  {"x = 1;\n"} \cup LongBannerTexts \cup
  {JoinLines(lines, newline) \o (IF final THEN newline ELSE "") :
     lines \in UNION {[1..n -> BannerLines] : n \in 1..MaxBannerLines},
     newline \in {"\n", "\r\n"},
     final \in BOOLEAN}

FileTexts == {"", "x\n", "#!sh\nx\n", "// old\n\nx\n", "// a\nx\n", "\nx\n"}

InitBanner ==
  /\ options = NoOptions
  /\ build = NoBuild
  /\ \E raw \in BannerTexts \cup {""}, files \in UNION {[1..n -> FileTexts] : n \in 0..MaxFiles} :
       banner = [NoBanner EXCEPT !.pc = "start", !.exists = raw # "", !.rawContent = raw,
                                 !.files = files]
  /\ config = NoConfig
  /\ program = <<>>
  /\ order = SourceOrder(program)
  /\ tsDiagnostics = <<>>
  /\ setup = "ok"
  /\ detectDeprecated = TRUE
  /\ errors = <<>>
  /\ pc = "off"
  /\ cursor = 1
  /\ checkedLocations = {}
  /\ suppressedLines = <<>>
  /\ usedSuppressions = {}
  /\ deprecationWarnings = <<>>
  /\ result = NoResult
  /\ runs = 0
  /\ firstResult = NoResult

SpecBanner == InitBanner /\ [][NextBanner]_vars

\* generatePrettierConfigFiles over root directories with some config files,
\* manifests with and without a prettier entry, with or without a
\* .prettierignore, where writing one or the other file fails.
UserContent == "# mine\n"

ManifestTexts ==
  [f \in {"package.json", "package.yaml"} |->
     IF f = "package.json"
       THEN {Absent, "{\"name\":\"app\",\"prettier\":{\"semi\":false}}", "{\"name\":\"app\"}",
             "{\"name\":"}
       ELSE {Absent, "name: app\r\n\"prettier\" :\r\n  semi: false\r\n", "name: app\nprettiers: 1\n"}]

Roots ==
  {[f \in RootFiles |->
      IF f \in present THEN UserContent
      ELSE IF f = "package.json" THEN json
      ELSE IF f = "package.yaml" THEN yaml
      ELSE Absent] :
     present \in SUBSET {".prettierrc", ".prettierrc.json5", "prettier.config.mts", ".prettierignore"},
     json \in ManifestTexts["package.json"],
     yaml \in ManifestTexts["package.yaml"]}

InitConfig ==
  /\ options = NoOptions
  /\ build = NoBuild
  /\ banner = NoBanner
  /\ \E root \in Roots, readOnly \in SUBSET {".prettierrc", ".prettierignore"} :
       config = [NoConfig EXCEPT !.pc = "start", !.root = root, !.before = root,
                                 !.readOnly = readOnly]
  /\ program = <<>>
  /\ order = SourceOrder(program)
  /\ tsDiagnostics = <<>>
  /\ setup = "ok"
  /\ detectDeprecated = TRUE
  /\ errors = <<>>
  /\ pc = "off"
  /\ cursor = 1
  /\ checkedLocations = {}
  /\ suppressedLines = <<>>
  /\ usedSuppressions = {}
  /\ deprecationWarnings = <<>>
  /\ result = NoResult
  /\ runs = 0
  /\ firstResult = NoResult

SpecConfig == InitConfig /\ [][NextConfig]_vars

-----------------------------------------------------------------------------
(* Reading the program and the result, for the properties. *)

\* The item's source file is scanned: no declaration file, not node_modules.
RECURSIVE ScannedFile(_, _)
ScannedFile(p, i) ==
  IF i = 0 THEN TRUE
  ELSE IF IsFileStart(p[i]) THEN p[i].k = "NewFile"
  ELSE ScannedFile(p, i - 1)

\* The directive comments the scan can see, and their 1-based lines.
IsLineComment(it) ==
  it.k = "Comment" /\ Len(it.text) >= 2 /\ SubSeq(it.text, 1, 2) = "//"

\* A directive comment: a `//` comment with the directive right after the
\* slashes and optional white space.
IsDirective(it) ==
  IsLineComment(it) /\ StartsWith(it.text, SkipSpace(it.text, 3), DirectiveText)

Directives(p) == {i \in DOMAIN p : IsDirective(p[i]) /\ ScannedFile(p, i)}

CommentLine(p, i) == Line0(p, i) + 1

ProtectedBy(p, i, fileName, line) ==
  FileNameOf(p, i) = fileName /\ line = CommentLine(p, i) + 1

ProtectedLine(p, fileName, line) ==
  \E i \in Directives(p) : ProtectedBy(p, i, fileName, line)

\* Obsolescence as section 4.2 states it: a tag named `deprecated`, with or
\* without text, or the modifier flag on the value declaration.
HasDeprecatedTag(s) ==
  /\ ~SymbolTable[s].tagsThrow
  /\ \E j \in DOMAIN SymbolTable[s].jsDocTags :
       SymbolTable[s].jsDocTags[j].name = "deprecated"

HasLegacyFlag(s) == SymbolTable[s].valueDeclaration /\ SymbolTable[s].deprecatedFlag

Obsolete(s) == s \in Symbols /\ (HasDeprecatedTag(s) \/ HasLegacyFlag(s))

\* The symbol a usage node refers to: the alias target for a specifier.
Referenced(p, i) ==
  IF p[i].sym \notin Symbols THEN NoSymbol
  ELSE IF p[i].k \in {"ImportSpecifier", "ImportClause", "ExportSpecifier"}
          /\ SymbolTable[p[i].sym].aliased \in Symbols
    THEN SymbolTable[p[i].sym].aliased
  ELSE p[i].sym

UsageKinds == {"Identifier", "CallExpression", "ImportSpecifier", "ImportClause",
               "ExportSpecifier", "TypeReference"}

\* Node i is a reference to a symbol, not a declaration site.
IsUsage(p, i) == p[i].k \in UsageKinds /\ Referenced(p, i) # NoSymbol

\* Node i lies in the subtree of the function-like node j.
Encloses(p, j, i) ==
  p[j].k \in ScopeKinds /\ j < i /\ i <= SubtreeEnd(p, j)

InObsoleteScope(p, i) ==
  \E j \in DOMAIN p : Encloses(p, j, i) /\ Obsolete(p[j].sym)

SameLine(p, i, j) ==
  FileOf(p, i) = FileOf(p, j) /\ Line0(p, i) = Line0(p, j)

\* A usage of an obsolete symbol starts on the given line.
ObsoleteUsageOn(p, fileName, line) ==
  \E i \in DOMAIN p :
    /\ IsUsage(p, i) /\ Obsolete(Referenced(p, i))
    /\ FileNameOf(p, i) = fileName /\ Line0(p, i) + 1 = line

HasCode(w, code) == Len(w.message) >= 7 /\ SubSeq(w.message, 1, 7) = code

IsPmax001(w) == HasCode(w, "PMAX001")

IsPmax002(w) == HasCode(w, "PMAX002")

\* The diagnostic lies at the start of node i.
AtNode(w, p, i) ==
  /\ w.file = FileNameOf(p, i)
  /\ w.line = Line0(p, i) + 1
  /\ w.column = Char0(p, i) + 1

\* runTypeScriptCheck returned and checkDeprecatedUsage ran to its end.
Completed ==
  /\ pc = "done"
  /\ \A j \in DOMAIN result.errors : result.errors[j] # FailedError

Count(seq, Test(_)) == Cardinality({j \in DOMAIN seq : Test(seq[j])})

-----------------------------------------------------------------------------
(* The claims. *)

\* C1: after a complete run no PMAX001 diagnostic lies on a protected line,
\* the line right after a recognised directive comment of the same file,
\* however many obsolete usages the line holds and whatever they name.
TheoremC1 ==
  Completed =>
    \A j \in DOMAIN result.errors :
      IsPmax001(result.errors[j]) =>
        ~ProtectedLine(program, result.errors[j].file, result.errors[j].line)

\* Two usages of different obsolete symbols share a protected line, and the
\* run suppressed them.
WitnessC1 ==
  /\ Completed
  /\ usedSuppressions # {}
  /\ \E i, j \in DOMAIN program :
       /\ i # j /\ SameLine(program, i, j)
       /\ IsUsage(program, i) /\ IsUsage(program, j)
       /\ Obsolete(Referenced(program, i)) /\ Obsolete(Referenced(program, j))
       /\ HasLegacyFlag(Referenced(program, i)) /\ HasLegacyFlag(Referenced(program, j))
       /\ SymbolTable[Referenced(program, i)].name
            # SymbolTable[Referenced(program, j)].name
       /\ ProtectedLine(program, FileNameOf(program, i), Line0(program, i) + 1)

HasTextTag(s) ==
  /\ ~SymbolTable[s].tagsThrow
  /\ \E j \in DOMAIN SymbolTable[s].jsDocTags :
       /\ SymbolTable[s].jsDocTags[j].name = "deprecated"
       /\ SymbolTable[s].jsDocTags[j].hasText
       /\ \A h \in 1..(j - 1) : SymbolTable[s].jsDocTags[h].name # "deprecated"

Recognised(s) == s \in Symbols /\ (HasTextTag(s) \/ HasLegacyFlag(s))

\* Obsolete by tag text and by flag alike, under a name no other symbol has.
ClearlyObsolete(s) ==
  /\ s \in Symbols /\ HasTextTag(s) /\ HasLegacyFlag(s)
  /\ \A t \in Symbols : t # s => SymbolTable[t].name # SymbolTable[s].name

\* Node i lies in a subtree the traversal does not enter.
InSkippedScope(p, i) ==
  \E j \in DOMAIN p :
    /\ Encloses(p, j, i)
    /\ \/ p[j].k # "ExportDeclaration" /\ p[j].sym \in Symbols /\ HasTextTag(p[j].sym)
       \/ p[j].k # "FunctionDeclaration" /\ p[j].doc

\* The display names looked up at usage node j.
NamesAt(p, j) ==
  {SymbolTable[Referenced(p, j)].name, SymbolTable[p[j].sym].name}

\* The traversal reaches usage node i.
Reached(p, i) ==
  /\ IsUsage(p, i)
  /\ ScannedFile(p, i)
  /\ ~InSkippedScope(p, i)
  /\ ~(p[i].k = "ExportSpecifier" /\ p[i].doc)

\* An earlier usage on the line already took the node's (file, line, name).
Shadowed(p, i) ==
  \E j \in 1..(i - 1) :
    /\ SameLine(p, i, j) /\ Reached(p, j)
    /\ SymbolTable[Referenced(p, i)].name \in NamesAt(p, j)

\* Usage node i is evaluated and found deprecated by the analyzer.
Offence(p, i) ==
  Reached(p, i) /\ ~Shadowed(p, i) /\ Recognised(Referenced(p, i))

Pmax002For(p, i) ==
  \E j \in DOMAIN result.errors :
    /\ IsPmax002(result.errors[j])
    /\ result.errors[j].file = FileNameOf(p, i)
    /\ result.errors[j].line = CommentLine(p, i)

OffenceProtectedBy(p, i) ==
  \E n \in DOMAIN p :
    Offence(p, n) /\ ProtectedBy(p, i, FileNameOf(p, n), Line0(p, n) + 1)

OriginalC4 ==
  Completed =>
    \A j \in DOMAIN result.errors : \A i \in DOMAIN program :
      IsPmax001(result.errors[j]) /\ AtNode(result.errors[j], program, i)
        => ~InObsoleteScope(program, i)

OnlyPlainSymbols(p) ==
  \A i \in DOMAIN p : p[i].sym \in {NoSymbol, 1, 2}

ReasonOf(s) ==
  IF HasTextTag(s)
    THEN Join(SymbolTable[s].jsDocTags[FindDeprecatedTag(SymbolTable[s].jsDocTags)].text)
    ELSE ""

ExpectedMessage(s) ==
  IF ReasonOf(s) = ""
    THEN "PMAX001: '" \o SymbolTable[s].name \o "' is deprecated"
    ELSE "PMAX001: '" \o SymbolTable[s].name \o "' is deprecated: " \o ReasonOf(s)

\* C6: every PMAX001 message is `PMAX001: '<name>' is deprecated` when the
\* reason of the symbol it reports is absent or empty, and that text followed
\* by `: <reason>` otherwise.
TheoremC6 ==
  Completed =>
    \A j \in DOMAIN result.errors :
      IsPmax001(result.errors[j]) =>
        \E i \in DOMAIN program :
          /\ Reached(program, i) /\ ~Shadowed(program, i)
          /\ AtNode(result.errors[j], program, i)
          /\ result.errors[j].message = ExpectedMessage(Referenced(program, i))

\* One run reports a symbol with a reason and a symbol whose tag has an
\* empty text.
WitnessC6 ==
  /\ Completed
  /\ \E j, h \in DOMAIN result.errors :
       /\ result.errors[j].message = "PMAX001: 'oldFn' is deprecated: Use newFn"
       /\ result.errors[h].message = "PMAX001: 'emptyFn' is deprecated"

\* C7 as stated: a usage is reported if and only if its symbol has a tag
\* named `deprecated`, with or without text, or the modifier flag on its value
\* declaration; stated for usages outside obsolete declarations, off
\* protected lines, first of their name on their line.
OriginalC7 ==
  Completed =>
    \A i \in DOMAIN program :
      (/\ Reached(program, i) /\ ~Shadowed(program, i)
       /\ ~InObsoleteScope(program, i)
       /\ ~ProtectedLine(program, FileNameOf(program, i), Line0(program, i) + 1))
      => LET Here(w) == IsPmax001(w) /\ AtNode(w, program, i)
         IN Count(result.errors, Here) =
              (IF Obsolete(Referenced(program, i)) THEN 1 ELSE 0)

SpecifierKinds == {"ImportSpecifier", "ImportClause", "ExportSpecifier"}

\* C8 as stated: a specifier whose alias target is obsolete gets exactly one
\* PMAX001 at its location, naming the target's own name; stated for
\* specifiers off protected lines, first of their names on their line, and
\* export specifiers without an adjacent deprecation comment.
OriginalC8 ==
  Completed =>
    \A i \in DOMAIN program :
      (/\ program[i].k \in SpecifierKinds /\ ~program[i].doc
       /\ Reached(program, i) /\ ~Shadowed(program, i)
       /\ Referenced(program, i) # program[i].sym
       /\ Obsolete(Referenced(program, i))
       /\ ~ProtectedLine(program, FileNameOf(program, i), Line0(program, i) + 1))
      => LET Here(w) == IsPmax001(w) /\ AtNode(w, program, i)
             Named(w) == Here(w) /\ w.message = ExpectedMessage(Referenced(program, i))
         IN /\ Count(result.errors, Here) = 1
            /\ Count(result.errors, Named) = 1

\* The two diagnostic lists hold the same diagnostics the same number of
\* times.
SameMultiset(a, b) ==
  /\ Len(a) = Len(b)
  /\ \A j \in DOMAIN a :
       LET Same(w) == w = a[j]
       IN Count(a, Same) = Count(b, Same)

\* C9: a second run over the unchanged program starts from empty
\* collections and returns the same multiset of diagnostics as the first.
TheoremC9 ==
  /\ (pc = "file" /\ cursor = 1) =>
       /\ checkedLocations = {} /\ usedSuppressions = {}
       /\ suppressedLines = <<>> /\ deprecationWarnings = <<>>
  /\ (pc = "done" /\ runs >= 2) =>
       /\ result.success = firstResult.success
       /\ SameMultiset(result.errors, firstResult.errors)

\* The second run is over; both runs reported a usage and an unused
\* directive.
WitnessC9 ==
  /\ pc = "done" /\ runs = 2
  /\ checkedLocations # {}
  /\ \E j, h \in DOMAIN result.errors :
       IsPmax001(result.errors[j]) /\ IsPmax002(result.errors[h])
  /\ result.errors = firstResult.errors

\* C10 as stated: whatever lookup fails on a node, the run is not aborted
\* and every deprecated usage on another node, off protected lines, is still
\* reported.
OriginalC10 ==
  pc = "done" =>
    /\ Completed
    /\ \A i \in DOMAIN program :
         (/\ Offence(program, i)
          /\ ~ProtectedLine(program, FileNameOf(program, i), Line0(program, i) + 1))
         => \E j \in DOMAIN result.errors :
              IsPmax001(result.errors[j]) /\ AtNode(result.errors[j], program, i)

\* C11: with detectDeprecated = false the result holds no PMAX001 and no
\* PMAX002, whatever usages and directives the sources contain; what is
\* returned after a normal start is the parsed compile diagnostics alone.
TheoremC11 ==
  (pc = "done" /\ ~detectDeprecated) =>
    /\ \A j \in DOMAIN result.errors :
         ~IsPmax001(result.errors[j]) /\ ~IsPmax002(result.errors[j])
    /\ setup = "ok" => result.errors = ParseDiagnostics(tsDiagnostics)

\* Detection is off, the sources hold a deprecated usage off protected lines
\* and a directive that protects nothing, and the run succeeded.
WitnessC11 ==
  /\ pc = "done" /\ ~detectDeprecated /\ setup = "ok"
  /\ \E i \in DOMAIN program :
       /\ Offence(program, i)
       /\ ~ProtectedLine(program, FileNameOf(program, i), Line0(program, i) + 1)
  /\ \E i \in Directives(program) : ~OffenceProtectedBy(program, i)
  /\ result.success /\ result.errors = <<>>

\* C12: on every return path of runTypeScriptCheck, success is true exactly
\* when the returned errors are empty.
TheoremC12 ==
  pc = "done" => (result.success <=> result.errors = <<>>)

\* The compile diagnostics hold no parsable error and the run fails through
\* a deprecation diagnostic alone.
WitnessC12 ==
  /\ pc = "done" /\ setup = "ok" /\ detectDeprecated
  /\ tsDiagnostics # <<>> /\ ParseDiagnostics(tsDiagnostics) = <<>>
  /\ ~result.success
  /\ \A j \in DOMAIN result.errors : IsPmax001(result.errors[j])

\* A `//` comment that holds the directive text, but not right after the
\* slashes and optional white space.
IsMention(it) ==
  IsLineComment(it) /\ CommentMentions(it.text) /\ ~IsDirective(it)

\* A diagnostic with the given code on the given 1-based line of the file of
\* item i.
DiagnosticOn(p, i, code, line) ==
  \E j \in DOMAIN result.errors :
    /\ HasCode(result.errors[j], code)
    /\ result.errors[j].file = FileNameOf(p, i)
    /\ result.errors[j].line = line

\* Item n is a deprecated usage the traversal evaluates on the line after
\* the line comment i starts on.
UsageBelow(p, i, n) ==
  /\ Offence(p, n)
  /\ FileNameOf(p, n) = FileNameOf(p, i)
  /\ Line0(p, n) = Line0(p, i) + 1

\* C13: a `//` comment holding the directive text anywhere but right after
\* the slashes and optional white space registers nothing: its next line is
\* never in suppressedLines, no PMAX002 is reported at it, and a deprecated
\* usage on its next line is reported.
TheoremC13 ==
  \A i \in DOMAIN program :
    (IsMention(program[i]) /\ ScannedFile(program, i)) =>
      /\ ~IsSuppressed(suppressedLines, FileNameOf(program, i), Line0(program, i) + 2)
      /\ Completed =>
           /\ ~DiagnosticOn(program, i, "PMAX002", Line0(program, i) + 1)
           /\ \A n \in DOMAIN program :
                UsageBelow(program, i, n) =>
                  DiagnosticOn(program, i, "PMAX001", Line0(program, n) + 1)

\* A comment that mentions the directive in prose stands above a deprecated
\* usage: the usage is reported and nothing else.
WitnessC13 ==
  /\ Completed
  /\ \E i, n \in DOMAIN program :
       /\ IsMention(program[i]) /\ program[i].text # "/// " \o DirectiveText
       /\ UsageBelow(program, i, n)
  /\ Len(result.errors) = 1 /\ IsPmax001(result.errors[1])

\* C14 as stated: a block comment never registers a directive, so no line
\* is protected through it, no PMAX002 is reported at it and a deprecated
\* usage on the line after its first is reported.
OriginalC14 ==
  \A i \in DOMAIN program :
    (IsBlockComment(program[i]) /\ ScannedFile(program, i)) =>
      /\ pc \in {"visit", "unused", "return"} =>
           ~IsSuppressed(suppressedLines, FileNameOf(program, i), Line0(program, i) + 2)
      /\ Completed =>
           /\ ~DiagnosticOn(program, i, "PMAX002", Line0(program, i) + 1)
           /\ \A n \in DOMAIN program :
                (/\ UsageBelow(program, i, n)
                 /\ ~ProtectedLine(program, FileNameOf(program, n), Line0(program, n) + 1))
                => DiagnosticOn(program, i, "PMAX001", Line0(program, n) + 1)

\* C15 as stated: no PMAX001 is located at the name of a declaration,
\* whatever the declaration declares.
OriginalC15 ==
  Completed =>
    \A j \in DOMAIN result.errors : \A i \in DOMAIN program :
      (IsPmax001(result.errors[j]) /\ AtNode(result.errors[j], program, i))
        => program[i].k # "DeclarationName"

\* Item j is an export declaration with a leading JSDoc comment holding
\* `@deprecated`, or a type-alias declaration that is itself obsolete.
MarkedDeclaration(p, j) ==
  \/ p[j].k = "ExportDeclaration" /\ p[j].doc
  \/ p[j].k = "TypeAliasDeclaration" /\ Obsolete(p[j].sym)

InMarkedDeclaration(p, i) ==
  \E j \in DOMAIN p : Encloses(p, j, i) /\ MarkedDeclaration(p, j)

\* C16 as stated: nothing is reported inside a marked export or type-alias
\* declaration; an export specifier or type reference of an obsolete symbol
\* in an unmarked one is reported (off protected lines, first of its name on
\* its line).
OriginalC16 ==
  Completed =>
    /\ \A j \in DOMAIN result.errors : \A i \in DOMAIN program :
         (IsPmax001(result.errors[j]) /\ AtNode(result.errors[j], program, i))
           => ~InMarkedDeclaration(program, i)
    /\ \A i \in DOMAIN program :
         (/\ program[i].k \in {"ExportSpecifier", "TypeReference"}
          /\ IsUsage(program, i) /\ ScannedFile(program, i)
          /\ ~program[i].doc /\ ~Shadowed(program, i)
          /\ \E j \in DOMAIN program : Encloses(program, j, i)
          /\ \A j \in DOMAIN program :
               Encloses(program, j, i) =>
                 /\ program[j].k \in {"ExportDeclaration", "TypeAliasDeclaration"}
                 /\ ~MarkedDeclaration(program, j) /\ ~program[j].doc
          /\ Obsolete(Referenced(program, i))
          /\ ~ProtectedLine(program, FileNameOf(program, i), Line0(program, i) + 1))
         => DiagnosticOn(program, i, "PMAX001", Line0(program, i) + 1)

\* A PMAX001 in the file and on the line of item i, at the given 0-based
\* character.
Pmax001At(p, i, char0) ==
  {j \in DOMAIN result.errors :
     /\ IsPmax001(result.errors[j])
     /\ result.errors[j].file = FileNameOf(p, i)
     /\ result.errors[j].line = Line0(p, i) + 1
     /\ result.errors[j].column = char0 + 1}

\* The component prop the attribute of JSX element i stands for.
PropOf(p, i) ==
  IF p[i].k = "JsxElement" /\ p[i].attr # 0 THEN JsxAttributes[p[i].attr].prop
  ELSE NoSymbol

\* An earlier JSX element on the line carries an attribute, or a tag, of the
\* same name.
ShadowedAttribute(p, i) ==
  \E j \in 1..(i - 1) :
    /\ SameLine(p, i, j) /\ p[j].k = "JsxElement"
    /\ \/ PropOf(p, j) # NoSymbol
          /\ SymbolTable[PropOf(p, j)].name = SymbolTable[PropOf(p, i)].name
       \/ p[j].attr # 0 /\ JsxAttributes[p[j].attr].direct \in Symbols
          /\ SymbolTable[JsxAttributes[p[j].attr].direct].name = SymbolTable[PropOf(p, i)].name

Settled == build.pc \in {"resolved", "rejected"}

\* A step of this buildStart reported an error: applyBanner threw, or the
\* format result or a TypeScript result carried an error.
ErrorReported ==
  \/ build.bannerFailed
  \/ build.formatted /\ build.formatResult.errors # <<>>
  \/ build.aggregatedErrors # <<>>

OriginalC19 ==
  (build.formatted /\ ~build.formatResult.success) => runs = 0

\* C20 as stated: applyBanner over files that already received the banner
\* counts no insertion and no replacement and leaves every file as it was.
OriginalC20 ==
  (banner.passes >= 2 /\ banner.pc \in {"files", "done"}) =>
    /\ banner.summary.inserted = 0
    /\ banner.summary.replaced = 0
    /\ banner.files = banner.before

\* The lines of a banner file as its author sees them: without the empty
\* piece after a final line ending.
WrittenLines(raw) ==
  LET pieces == SplitLines(RemoveCarriageReturns(raw), 1)
  IN IF Len(pieces) > 1 /\ pieces[Len(pieces)] = "" THEN SubSeq(pieces, 1, Len(pieces) - 1)
     ELSE pieces

\* The number of lines of a banner, the terminating blank line counted.
BannerLineCount(raw) ==
  LET lines == WrittenLines(raw)
  IN IF lines[Len(lines)] = "" THEN Len(lines) ELSE Len(lines) + 1

IsBannerLine(line) ==
  \/ StartsWith(line, 1, "//")
  \/ \A i \in 1..Len(line) : SubSeq(line, i, i) \in {" ", "\t"}

\* An invalid .prettierbanner: empty, holding a line that is neither a comment
\* nor white space, or longer than 20 lines.
InvalidBanner(raw) ==
  LET lines == WrittenLines(raw)
  IN \/ \A i \in DOMAIN lines : lines[i] = ""
     \/ \E i \in DOMAIN lines : ~IsBannerLine(lines[i])
     \/ BannerLineCount(raw) > 20

\* C21: with an invalid .prettierbanner applyBanner throws and every file is
\* as it was before the call.
TheoremC21 ==
  (banner.exists /\ InvalidBanner(banner.rawContent) /\ banner.passes >= 1) =>
    /\ banner.pc = "threw"
    /\ banner.files = banner.before
    /\ banner.summary = NoSummary

\* applyBanner threw over a file without banner because the banner is one
\* line too long.
WitnessC21 ==
  /\ banner.pc = "threw"
  /\ BannerLineCount(banner.rawContent) = 21
  /\ banner.files = <<"x\n">>

\* The configured tsconfig files: every entry that names one, as the file it
\* names under the root.
NamedFiles(configured) ==
  LET named == SelectSeq(configured, LAMBDA entry : entry # "")
  IN [i \in DOMAIN named |->
        IF SubSeq(named[i], 1, 1) = "/" THEN named[i]
        ELSE IF Len(named[i]) > 1 /\ SubSeq(named[i], 1, 2) = "./"
          THEN "/root/" \o SubSeq(named[i], 3, Len(named[i]))
        ELSE "/root/" \o named[i]]

\* The distinct files of a list in the order in which the list first names
\* them.
InConfiguredOrder(files) ==
  LET first == {i \in DOMAIN files : \A j \in 1..(i - 1) : files[j] # files[i]}
      Nth[n \in 0..Len(files)] ==
        IF n = 0 THEN 0 ELSE CHOOSE i \in first : i > Nth[n - 1] /\ \A j \in first : j > Nth[n - 1] => i <= j
  IN [n \in 1..Cardinality(first) |-> files[Nth[n]]]

SeveralConfigured == Len(NamedFiles(options.tsconfig)) >= 2

\* Formatting went through and TypeScript validation is to follow.
ValidationDue ==
  /\ build.formatted /\ build.formatResult.errors = <<>>
  /\ options.typescript /\ options.tsVersion

IsPrefix(short, long) ==
  Len(short) <= Len(long) /\ \A i \in DOMAIN short : short[i] = long[i]

\* C22: with several tsconfig paths configured one buildStart formats once
\* and calls runTypeScriptCheck once per distinct resolved path in the
\* configured order, for every path whatever the earlier ones reported; a
\* build stopped over TypeScript errors has validated them all.
TheoremC22 ==
  SeveralConfigured =>
    /\ build.formats <= 1
    /\ build.checked # <<>> => build.formats = 1
    /\ IsPrefix(build.checked, InConfiguredOrder(NamedFiles(options.tsconfig)))
    /\ runs <= Len(build.checked)
    /\ (Settled /\ ValidationDue) =>
         /\ build.checked = InConfiguredOrder(NamedFiles(options.tsconfig))
         /\ runs = Len(build.checked)
    /\ ~ValidationDue => build.checked = <<>>

\* The build is stopped after two tsconfig files were validated, the first
\* with errors, out of a list that names one of them twice in two spellings.
WitnessC22 ==
  /\ build.pc = "rejected" /\ build.error = "TypeScript validation failed"
  /\ Len(options.tsconfig) = 3 /\ Len(build.checked) = 2
  /\ \E i, j \in DOMAIN options.tsconfig :
       i # j /\ options.tsconfig[i] = "tsconfig.json" /\ options.tsconfig[j] = "./tsconfig.json"
  /\ runs = 2
  /\ \E e \in DOMAIN build.aggregatedErrors :
       build.aggregatedErrors[e].message = "Provided tsconfig.json was not found"

\* The config files Prettier recognises.
ConfigVariants == {PRETTIER_CONFIG_FILES[i] : i \in DOMAIN PRETTIER_CONFIG_FILES}

\* A write of the file was attempted and failed.
WriteFailed(fileName) ==
  /\ fileName \in config.readOnly
  /\ config.before[fileName] = Absent
  /\ fileName = ".prettierrc" => config.existing = Absent /\ config.pc \in {"prettierignore", "done"}
  /\ fileName = ".prettierignore" => config.pc = "done"

\* C23: generatePrettierConfigFiles leaves every file that existed as it was;
\* .prettierrc is written only when no config variant existed and
\* .prettierignore only when there was none; a failed write is logged and the
\* call still returns.
TheoremC23 ==
  /\ \A f \in RootFiles : config.before[f] # Absent => config.root[f] = config.before[f]
  /\ \A f \in RootFiles : config.root[f] # config.before[f] =>
       /\ f \in {".prettierrc", ".prettierignore"}
       /\ f = ".prettierrc" => \A v \in ConfigVariants : config.before[v] = Absent
  /\ \A f \in {".prettierrc", ".prettierignore"} :
       WriteFailed(f) =>
         /\ \E i \in DOMAIN config.log : config.log[i] = "Failed to generate " \o f
         /\ config.root[f] = Absent
         /\ config.pc \in {"prettierignore", "done"}

\* The generator went through a root that held another config variant and
\* no .prettierignore: .prettierrc was not generated, .prettierignore was.
WitnessC23 ==
  /\ config.pc = "done"
  /\ config.before[".prettierrc.json5"] # Absent
  /\ config.before[".prettierrc"] = Absent
  /\ config.root[".prettierrc"] = Absent
  /\ config.before[".prettierignore"] = Absent
  /\ config.root[".prettierignore"] = PrettierignoreContent

\* The PMAX001 diagnostic names the symbol.
Names(w, displayName) ==
  /\ IsPmax001(w)
  /\ StartsWith(w.message, 1, "PMAX001: '" \o displayName \o "' is deprecated")

DisplayNames == {SymbolTable[s].name : s \in DOMAIN SymbolTable}

\* C24: no two PMAX001 diagnostics of the returned list share file, line and
\* display name.
TheoremC24 ==
  pc = "done" =>
    \A j, k \in DOMAIN result.errors : \A displayName \in DisplayNames :
      (/\ j # k
       /\ Names(result.errors[j], displayName) /\ Names(result.errors[k], displayName)
       /\ result.errors[j].file = result.errors[k].file)
      => result.errors[j].line # result.errors[k].line

\* A call of oldFn, obsolete by its tag and by its flag, and a further
\* reference to it on the same line gave one PMAX001.
WitnessC24 ==
  /\ Completed
  /\ \E i, j \in DOMAIN program :
       /\ program[i].k = "CallExpression" /\ program[i].sym = 2
       /\ j = i + 1 /\ program[j].k = "Identifier" /\ program[j].sym = 2 /\ program[j].same
       /\ Cardinality({e \in DOMAIN result.errors :
                         /\ Names(result.errors[e], "oldFn")
                         /\ result.errors[e].file = FileNameOf(program, i)
                         /\ result.errors[e].line = Line0(program, i) + 1}) = 1

\* A function declaration obsolete by section 4.2 without a reason: through
\* a `deprecated` tag without text or through the legacy flag alone.
ObsoleteWithoutReason(p, f) ==
  /\ p[f].k = "FunctionDeclaration"
  /\ Obsolete(p[f].sym)
  /\ ~HasTextTag(p[f].sym)

\* C25 as stated: the body of a function that is obsolete without a reason
\* is skipped like that of one whose tag carries a reason, so no PMAX001
\* lies at a node inside it.
OriginalC25 ==
  Completed =>
    \A f, i \in DOMAIN program :
      (ObsoleteWithoutReason(program, f) /\ Encloses(program, f, i)) =>
        \A j \in DOMAIN result.errors :
          ~(IsPmax001(result.errors[j]) /\ AtNode(result.errors[j], program, i))

\* The diagnostics of a result, as a set.
Diagnostics(r) == {r.errors[j] : j \in DOMAIN r.errors}

\* A step inside one run of checkDeprecatedUsage only adds to what the files
\* share.
OnlyGrows ==
  pc \in {"file", "visit", "unused", "return"} =>
    /\ checkedLocations \subseteq checkedLocations'
    /\ usedSuppressions \subseteq usedSuppressions'
    /\ IsPrefix(deprecationWarnings, deprecationWarnings')
    /\ IsPrefix(suppressedLines, suppressedLines')

\* C26: whatever the order of the source files, runTypeScriptCheck returns
\* the same set of diagnostics, and within a run the diagnostics list, the
\* checked locations and the consumed suppressions only grow.
TheoremC26 ==
  /\ []((pc = "done" /\ runs >= 2) => Diagnostics(result) = Diagnostics(firstResult))
  /\ [][OnlyGrows]_vars

\* Two files each with a reported usage were read in both orders: the lists
\* differ, the sets do not.
WitnessC26 ==
  /\ pc = "done" /\ runs >= 2
  /\ order # SourceOrder(program)
  /\ result.errors # firstResult.errors
  /\ \E j, k \in DOMAIN result.errors :
       /\ IsPmax001(result.errors[j]) /\ IsPmax001(result.errors[k])
       /\ result.errors[j].file # result.errors[k].file

\* The file whose nodes are being visited.
CurrentFile == FileOf(program, NextNode(program, cursor))

\* Every directive of the file being visited has its protected line in the
\* suppression map.
ScanCompleted ==
  \A i \in Directives(program) :
    (NextNode(program, cursor) # 0 /\ FileOf(program, i) = CurrentFile) =>
      IsSuppressed(suppressedLines, FileNameOf(program, i), CommentLine(program, i) + 1)

\* C27: no PMAX002 is in the warnings while a file is still being scanned or
\* visited or before the loop over the suppression map has run, and whenever
\* a node of a file is about to be visited the suppression map already holds
\* the protected line of every directive of that file.
TheoremC27 ==
  /\ pc \in {"file", "visit", "unused"} =>
       \A j \in DOMAIN deprecationWarnings : ~IsPmax002(deprecationWarnings[j])
  /\ pc = "visit" => ScanCompleted

\* The first node of a file is about to be visited; a directive below it is
\* already registered and still unconsumed, the deprecated usage that will
\* consume it is pending, and no PMAX002 has been written for it.
WitnessC27 ==
  /\ pc = "visit" /\ NextNode(program, cursor) # 0
  /\ \E i \in Directives(program) :
       /\ FileOf(program, i) = CurrentFile /\ i > NextNode(program, cursor)
       /\ IsSuppressed(suppressedLines, FileNameOf(program, i), CommentLine(program, i) + 1)
       /\ SuppressionKey(FileNameOf(program, i), CommentLine(program, i) + 1)
            \notin usedSuppressions
       /\ \E n \in DOMAIN program :
            /\ n > i /\ Offence(program, n)
            /\ ProtectedBy(program, i, FileNameOf(program, n), Line0(program, n) + 1)
  /\ \A j \in DOMAIN deprecationWarnings : ~IsPmax002(deprecationWarnings[j])

\* A run of a buildStart call is in progress: the call has set the flag and
\* has not left its try statement.
FirstRunning == build.pc \in {"format", "ts", "tsWait"}

SecondRunning == build.second.pc \in {"format", "ts"}

\* C28: a buildStart called while an earlier call has not finished applies
\* no banner, formats nothing and validates nothing, and the runs of two
\* calls are never in progress together.
OriginalC28 ==
  /\ build.second.overlaps =>
       /\ ~build.second.bannerApplied
       /\ build.second.formats = 0
       /\ ~build.second.validated
  /\ ~(FirstRunning /\ SecondRunning)

\* The entry of the suppression map is consumed.
Consumed(entry) == SuppressionKey(entry.file, entry.line) \in usedSuppressions

\* Number of PMAX002 diagnostics of the result for the directive of the entry.
Reports(entry) ==
  LET ForEntry(w) == IsPmax002(w) /\ w.file = entry.file /\ w.line = entry.line - 1
  IN Count(result.errors, ForEntry)

OriginalC30 == build.isFormatting ~> ~build.isFormatting

====
